---- MODULE Spec2Model ----
(***************************************************************************)
(* A model of the geometry pipeline of Source/Core/GeometryPipeline.js.    *)
(*                                                                         *)
(* A geometry is a record                                                  *)
(*   attributes    : attribute name -> [componentDatatype,                 *)
(*                   componentsPerAttribute, normalize, values]            *)
(*   indexed       : whether geometry.indexList is defined                 *)
(*   indexList     : the index list (<<>> when it is not defined)          *)
(*   primitiveType : one of PrimitiveTypes                                 *)
(* JavaScript arrays are sequences; position i of the array is element     *)
(* i + 1 of the sequence, and a hole or an out-of-range read is the value  *)
(* undefined.                                                              *)
(*                                                                         *)
(* A model of the primitive of Source/Scene/Vector3DTileClampedPolylines.js *)
(* follows that of the pipeline: the fields of one primitive, the objects  *)
(* it refers to, the task processor it sends its task to and the frame     *)
(* it was updated in, from its construction until it is destroyed.         *)
(***************************************************************************)
EXTENDS Integers, Sequences, FiniteSets, TLC

VARIABLES
    geometry,      \* the geometry object the caller holds
    before,        \* its value when the last call was made
    lastOp,        \* the pipeline function called last ("none" at the start)
    arg,           \* the extra argument of the last call (cacheCapacity)
    threw,         \* whether the last call ended in a DeveloperError
    geometries,    \* the list returned by the last fitToUnsignedShortIndices
    aliased,       \* for each geometry returned, whether it is the very
                   \* object the caller passed in (not a new Geometry)
    instanceList,  \* the instance list passed to combine
    combined,      \* the geometry returned by the last combine
    polylines,     \* the fields of the Vector3DTileClampedPolylines
    heap,          \* the objects made so far; an object is referred to by
                   \* its place in this list
    taskProcessor, \* createVerticesTaskProcessor and what it was asked
    latestFrame,   \* the frameState of the latest call of update, as
                   \* update left it
    queued         \* the commands of the primitive in the command lists
                   \* of the frames before

pipelineVars == <<geometry, before, lastOp, arg, threw, geometries, aliased,
                  instanceList, combined>>

polylinesVars == <<polylines, heap, taskProcessor, latestFrame, queued>>

vars == <<geometry, before, lastOp, arg, threw, geometries, aliased,
          instanceList, combined, polylines, heap, taskProcessor, latestFrame,
          queued>>

\* The JavaScript value undefined (every number of the model is >= -1).
undefined == -2

\* What combined holds before combine has returned anything.
NoGeometry == [attributes |-> <<>>, indexed |-> FALSE, indexList |-> <<>>,
               primitiveType |-> "POINTS"]

(***************************************************************************)
(* The constructor of Vector3DTileClampedPolylines (lines 84-132).  The    *)
(* arrays of the tile payload are the first four objects.                  *)
(***************************************************************************)
PayloadHeap ==
    <<[type |-> "Uint16Array"], [type |-> "Uint16Array"],
      [type |-> "Uint32Array"], [type |-> "Uint16Array"]>>

Vector3DTileClampedPolylines ==
    [_positions |-> 1, _widths |-> 2, _counts |-> 3, _batchIds |-> 4,
     _ellipsoid |-> "WGS84", _minimumHeight |-> "minimumHeight",
     _maximumHeight |-> "maximumHeight", _rectangle |-> "rectangle",
     _va |-> undefined, _sp |-> undefined, _rs |-> undefined,
     _uniformMap |-> undefined, _command |-> undefined,
     _transferrableBatchIds |-> undefined, _packedBuffer |-> undefined,
     _startEllipsoidNormals |-> undefined,
     _endEllipsoidNormals |-> undefined,
     _startPositionAndHeights |-> undefined,
     _startFaceNormalAndVertexCorners |-> undefined,
     _endPositionAndHeights |-> undefined,
     _endFaceNormalAndHalfWidths |-> undefined,
     _vertexBatchIds |-> undefined,
     _indices |-> undefined,
     _ready |-> FALSE,
     _readyPromise |-> [resolved |-> FALSE, resolveCalls |-> 0],
     _verticesPromise |-> undefined]

\* The task processor before any task: the parameters of the first and of
\* the latest call of scheduleTask, how many calls were postponed, the
\* parameters of the tasks taken on, and whether a task is at work.
IdleTaskProcessor ==
    [first |-> <<>>, latest |-> <<>>, postponed |-> 0, transferred |-> <<>>,
     active |-> FALSE]

\* The frame before the first call of update.
NoFrame == [passes |-> [render |-> FALSE, pick |-> FALSE], commandList |-> <<>>]

\* A primitive as it is constructed, not updated yet.
Constructed ==
    /\ polylines = Vector3DTileClampedPolylines
    /\ heap = PayloadHeap
    /\ taskProcessor = IdleTaskProcessor
    /\ latestFrame = NoFrame
    /\ queued = {}

PrimitiveTypes ==
    {"POINTS", "LINES", "LINE_STRIP", "LINE_LOOP",
     "TRIANGLES", "TRIANGLE_STRIP", "TRIANGLE_FAN"}

(***************************************************************************)
(* JavaScript array reads and writes.                                      *)
(***************************************************************************)
\* arr[i]: undefined outside 0 .. length-1 (and for i undefined).
At(arr, i) ==
    IF i >= 0 /\ i < Len(arr) THEN arr[i + 1] ELSE undefined

\* arr[i] = v: grows the array, leaving holes; a negative i (or undefined)
\* sets a property that is no element of the array.
ArraySet(arr, i, v) ==
    IF i < 0 THEN arr
    ELSE IF i < Len(arr) THEN [arr EXCEPT ![i + 1] = v]
    ELSE arr \o [k \in 1..(i - Len(arr)) |-> undefined] \o <<v>>

\* All sequences over S of length 0 .. n.
SeqsUpTo(S, n) == UNION {[1..k -> S] : k \in 0..n}

(***************************************************************************)
(* Attribute stores of the inputs: vertex v of attribute a holds the       *)
(* components base(a) + 10 * v + k, so every slot of every input is told   *)
(* apart from every other.                                                 *)
(***************************************************************************)
AttributeBase(name) == IF name = "position" THEN 100 ELSE 200

AttributeComponents(name) == IF name = "position" THEN 3 ELSE 2

MakeAttribute(name, n) ==
    [componentDatatype |-> "FLOAT",
     componentsPerAttribute |-> AttributeComponents(name),
     normalize |-> FALSE,
     values |-> [j \in 1..(n * AttributeComponents(name)) |->
                    AttributeBase(name)
                    + 10 * ((j - 1) \div AttributeComponents(name))
                    + ((j - 1) % AttributeComponents(name))]]

MakeAttributes(names, n) == [a \in names |-> MakeAttribute(a, n)]

AttributeSchemas == {{"position"}, {"position", "st"}}

MakeGeometry(names, n, indexed, indexList, primitiveType) ==
    [attributes |-> MakeAttributes(names, n),
     indexed |-> indexed,
     indexList |-> IF indexed THEN indexList ELSE <<>>,
     primitiveType |-> primitiveType]

\* Geometry.computeNumberOfVertices: attribute length / components, the same
\* for every attribute of a geometry.
computeNumberOfVertices(g) ==
    LET a == CHOOSE a \in DOMAIN g.attributes : TRUE
    IN  Len(g.attributes[a].values) \div g.attributes[a].componentsPerAttribute

\* The components of vertex v of attribute a (undefined where there is none).
VertexTuple(g, a, v) ==
    [k \in 1..g.attributes[a].componentsPerAttribute |->
        IF v = undefined THEN undefined
        ELSE At(g.attributes[a].values,
                g.attributes[a].componentsPerAttribute * v + (k - 1))]

(***************************************************************************)
(* toWireframe                                                             *)
(***************************************************************************)
addTriangleClosingOnI1(lines, i0, i1, i2) ==
    lines \o <<i0, i1, i1, i2, i2, i1>>

addTriangle(lines, i0, i1, i2) ==
    lines \o <<i0, i1, i1, i2, i2, i0>>

RECURSIVE trianglesToLinesFrom(_, _, _)
trianglesToLinesFrom(triangles, i, lines) ==
    IF i < Len(triangles)
    THEN trianglesToLinesFrom(triangles, i + 3,
             addTriangle(lines, At(triangles, i), At(triangles, i + 1),
                         At(triangles, i + 2)))
    ELSE lines

trianglesToLines(triangles) == trianglesToLinesFrom(triangles, 0, <<>>)

RECURSIVE stripLoopNoAlternation(_, _, _)
stripLoopNoAlternation(triangles, i, lines) ==
    IF i < Len(triangles)
    THEN stripLoopNoAlternation(triangles, i + 1,
             addTriangle(lines, At(triangles, i - 2), At(triangles, i - 1),
                         At(triangles, i)))
    ELSE lines

RECURSIVE stripLoop(_, _, _)
stripLoop(triangles, i, lines) ==
    IF i < Len(triangles)
    THEN stripLoop(triangles, i + 1,
             addTriangle(lines, At(triangles, i - 1), At(triangles, i),
                         At(triangles, i - 2)))
    ELSE lines

triangleStripToLines(triangles) ==
    IF Len(triangles) >= 3
    THEN stripLoop(triangles, 3,
             addTriangle(<<>>, At(triangles, 0), At(triangles, 1),
                         At(triangles, 2)))
    ELSE <<>>

RECURSIVE fanLoop(_, _, _, _, _)
fanLoop(triangles, base, count, i, lines) ==
    IF i < count
    THEN fanLoop(triangles, base, count, i + 1,
             addTriangle(lines, base, At(triangles, i), At(triangles, i + 1)))
    ELSE lines

triangleFanToLines(triangles) ==
    IF Len(triangles) > 0
    THEN fanLoop(triangles, At(triangles, 0), Len(triangles) - 1, 1, <<>>)
    ELSE <<>>

toWireframe(g) ==
    IF g.indexed
    THEN [g EXCEPT
            !.indexList =
                CASE g.primitiveType = "TRIANGLES" -> trianglesToLines(g.indexList)
                  [] g.primitiveType = "TRIANGLE_STRIP" -> triangleStripToLines(g.indexList)
                  [] g.primitiveType = "TRIANGLE_FAN" -> triangleFanToLines(g.indexList)
                  [] OTHER -> g.indexList,
            !.primitiveType = "LINES"]
    ELSE g

(***************************************************************************)
(* The wireframe specification: any geometry, toWireframe called on it any *)
(* number of times.                                                        *)
(***************************************************************************)
WireMaxVertices == 3
WireMaxLen == 6

InitWireframe ==
    /\ \E names \in AttributeSchemas, indexed \in BOOLEAN,
          primitiveType \in PrimitiveTypes :
        \E indexList \in IF indexed
                          THEN SeqsUpTo(0..(WireMaxVertices - 1), WireMaxLen)
                          ELSE {<<>>} :
            geometry = MakeGeometry(names, WireMaxVertices, indexed,
                                    indexList, primitiveType)
    /\ before = geometry
    /\ Constructed
    /\ lastOp = "none"
    /\ arg = undefined
    /\ threw = FALSE
    /\ geometries = <<>>
    /\ aliased = <<>>
    /\ instanceList = <<>>
    /\ combined = NoGeometry

ToWireframe ==
    /\ geometry' = toWireframe(geometry)
    /\ before' = geometry
    /\ lastOp' = "toWireframe"
    /\ arg' = undefined
    /\ threw' = FALSE
    /\ UNCHANGED polylinesVars
    /\ UNCHANGED <<geometries, aliased, instanceList, combined>>

NextWireframe == ToWireframe

SpecWireframe == InitWireframe /\ [][NextWireframe]_vars

(***************************************************************************)
(* Claims about toWireframe.                                               *)
(***************************************************************************)
\* The six line indices of the triangle (a, b, c).
Edges(a, b, c) == <<a, b, b, c, c, a>>

\* The k-th (from 0) block of six indices of lines.
EdgeBlock(lines, k) == SubSeq(lines, 6 * k + 1, 6 * k + 6)

WireframeCalled == lastOp = "toWireframe"

\* C1: toWireframe on an indexed TRIANGLES geometry of T triangles leaves
\* exactly 6 * T indices and the topology LINES; the k-th triangle (a, b, c)
\* gives, in order and whether or not an edge is shared, a,b, b,c, c,a.
C1_TrianglesBecomeLines ==
    (WireframeCalled /\ before.indexed /\ before.primitiveType = "TRIANGLES"
        /\ Len(before.indexList) % 3 = 0)
    => LET s == before.indexList
           T == Len(s) \div 3
       IN  /\ geometry.indexed
           /\ geometry.primitiveType = "LINES"
           /\ Len(geometry.indexList) = 6 * T
           /\ \A k \in 0..(T - 1) :
                EdgeBlock(geometry.indexList, k)
                    = Edges(s[3 * k + 1], s[3 * k + 2], s[3 * k + 3])

\* Two triangles sharing the edge 0-2 (and all their vertices) went through.
C1_Witness ==
    /\ WireframeCalled
    /\ before.indexed
    /\ before.primitiveType = "TRIANGLES"
    /\ before.indexList = <<0, 1, 2, 0, 2, 1>>
    /\ geometry.indexList = <<0, 1, 1, 2, 2, 0, 0, 2, 2, 1, 1, 0>>

\* C2: toWireframe leaves the geometry as it was (index list and primitive
\* type) when it has no index list or its type is not TRIANGLES,
\* TRIANGLE_STRIP or TRIANGLE_FAN.
C2_OtherGeometriesUnchanged ==
    (WireframeCalled
        /\ (~before.indexed
            \/ before.primitiveType
                 \notin {"TRIANGLES", "TRIANGLE_STRIP", "TRIANGLE_FAN"}))
    => /\ geometry.indexed = before.indexed
       /\ geometry.indexList = before.indexList
       /\ geometry.primitiveType = before.primitiveType

\* The triangle toWireframe is to draw k-th (from 0) from a strip or a fan s.
StripTriangle(s, k) ==
    IF k = 0 THEN <<s[1], s[2], s[3]>>
    ELSE <<s[k + 2], s[k + 3], s[k + 1]>>

FanTriangle(s, k) == <<s[1], s[k + 2], s[k + 3]>>

\* C3: toWireframe on an indexed TRIANGLE_STRIP or TRIANGLE_FAN of N indices
\* leaves the edges of exactly max(N - 2, 0) triangles: for a strip
\* (s[0], s[1], s[2]) and then (s[i-1], s[i], s[i-2]) for each i >= 3, for a
\* fan (s[0], s[k+1], s[k+2]); fewer than 3 indices leave an empty LINES list.
C3_StripAndFanBecomeLines ==
    (WireframeCalled /\ before.indexed
        /\ before.primitiveType \in {"TRIANGLE_STRIP", "TRIANGLE_FAN"})
    => LET s == before.indexList
           T == IF Len(s) >= 2 THEN Len(s) - 2 ELSE 0
       IN  /\ geometry.primitiveType = "LINES"
           /\ Len(geometry.indexList) = 6 * T
           /\ \A k \in 0..(T - 1) :
                LET t == IF before.primitiveType = "TRIANGLE_STRIP"
                         THEN StripTriangle(s, k) ELSE FanTriangle(s, k)
                IN  EdgeBlock(geometry.indexList, k) = Edges(t[1], t[2], t[3])

\* A strip of five indices went through and left three triangles' edges.
C3_Witness ==
    /\ WireframeCalled
    /\ before.indexed
    /\ before.primitiveType = "TRIANGLE_STRIP"
    /\ before.indexList = <<0, 1, 2, 1, 0>>
    /\ Len(geometry.indexList) = 18
    /\ EdgeBlock(geometry.indexList, 2) = <<1, 0, 0, 2, 2, 1>>

(***************************************************************************)
(* reorderForPreVertexCache                                                *)
(***************************************************************************)
\* The while loop over the index list with ++nextIndex left out.
RECURSIVE reorderIndicesNoIncrement(_, _, _, _, _, _)
reorderIndicesNoIncrement(indicesIn, numVertices, xref, indicesOut, into, nextIndex) ==
    IF into < Len(indicesIn)
    THEN LET tempIndex == At(xref, At(indicesIn, into))
         IN  IF tempIndex # -1
             THEN reorderIndicesNoIncrement(indicesIn, numVertices, xref,
                      ArraySet(indicesOut, into, tempIndex), into + 1, nextIndex)
             ELSE IF At(indicesIn, into) >= numVertices
             THEN [threw |-> TRUE, xref |-> xref, indicesOut |-> indicesOut]
             ELSE reorderIndicesNoIncrement(indicesIn, numVertices,
                      ArraySet(xref, At(indicesIn, into), nextIndex),
                      ArraySet(indicesOut, into, nextIndex), into + 1, nextIndex)
    ELSE [threw |-> FALSE, xref |-> xref, indicesOut |-> indicesOut]

\* The while loop with a vertex's first reference written out as tempIndex
\* (the old index) instead of nextIndex.
RECURSIVE reorderIndicesEmittingOldIndex(_, _, _, _, _, _)
reorderIndicesEmittingOldIndex(indicesIn, numVertices, xref, indicesOut, into, nextIndex) ==
    IF into < Len(indicesIn)
    THEN LET tempIndex == At(xref, At(indicesIn, into))
         IN  IF tempIndex # -1
             THEN reorderIndicesEmittingOldIndex(indicesIn, numVertices, xref,
                      ArraySet(indicesOut, into, tempIndex), into + 1, nextIndex)
             ELSE IF At(indicesIn, into) >= numVertices
             THEN [threw |-> TRUE, xref |-> xref, indicesOut |-> indicesOut]
             ELSE reorderIndicesEmittingOldIndex(indicesIn, numVertices,
                      ArraySet(xref, At(indicesIn, into), nextIndex),
                      ArraySet(indicesOut, into, At(indicesIn, into)),
                      into + 1, nextIndex + 1)
    ELSE [threw |-> FALSE, xref |-> xref, indicesOut |-> indicesOut]

\* The while loop of lines 213-229: xref is indexCrossReferenceOldToNew, into
\* is intoIndicesIn (and intoIndicesOut, which moves with it).  A read of xref
\* beyond numVertices gives undefined, which is not -1.
RECURSIVE reorderIndices(_, _, _, _, _, _)
reorderIndices(indicesIn, numVertices, xref, indicesOut, into, nextIndex) ==
    IF into < Len(indicesIn)
    THEN LET tempIndex == At(xref, At(indicesIn, into))
         IN  IF tempIndex # -1
             THEN reorderIndices(indicesIn, numVertices, xref,
                      ArraySet(indicesOut, into, tempIndex), into + 1, nextIndex)
             ELSE IF At(indicesIn, into) >= numVertices
             THEN [threw |-> TRUE, xref |-> xref, indicesOut |-> indicesOut]
             ELSE reorderIndices(indicesIn, numVertices,
                      ArraySet(xref, At(indicesIn, into), nextIndex),
                      ArraySet(indicesOut, into, nextIndex), into + 1, nextIndex + 1)
    ELSE [threw |-> FALSE, xref |-> xref, indicesOut |-> indicesOut]

\* The for loop of lines 243-245: the components of one vertex.
RECURSIVE moveComponents(_, _, _, _, _, _)
moveComponents(elementsIn, elementsOut, numComponents, intoElementsIn, temp, i) ==
    IF i < numComponents
    THEN moveComponents(elementsIn,
             ArraySet(elementsOut, numComponents * temp + i,
                      At(elementsIn, numComponents * intoElementsIn + i)),
             numComponents, intoElementsIn, temp, i + 1)
    ELSE elementsOut

\* The attribute loop reading slot oldToNew[i] into slot i.
RECURSIVE reorderElementsGathering(_, _, _, _, _, _)
reorderElementsGathering(elementsIn, numComponents, xref, numVertices, intoElementsIn, elementsOut) ==
    IF intoElementsIn < numVertices
    THEN reorderElementsGathering(elementsIn, numComponents, xref, numVertices,
             intoElementsIn + 1,
             moveComponents(elementsIn, elementsOut, numComponents,
                            At(xref, intoElementsIn), intoElementsIn, 0))
    ELSE elementsOut

\* The while loop of lines 241-247 for one attribute.
RECURSIVE reorderElements(_, _, _, _, _, _)
reorderElements(elementsIn, numComponents, xref, numVertices, intoElementsIn, elementsOut) ==
    IF intoElementsIn < numVertices
    THEN reorderElements(elementsIn, numComponents, xref, numVertices,
             intoElementsIn + 1,
             moveComponents(elementsIn, elementsOut, numComponents,
                            intoElementsIn, At(xref, intoElementsIn), 0))
    ELSE elementsOut

\* The call: [threw, geometry], geometry being the argument as the call
\* leaves it.
reorderForPreVertexCache(g) ==
    LET numVertices == computeNumberOfVertices(g)
        xref0 == [i \in 1..numVertices |-> -1]
        r == IF g.indexed
             THEN reorderIndices(g.indexList, numVertices, xref0, <<>>, 0, 0)
             ELSE [threw |-> FALSE, xref |-> xref0, indicesOut |-> <<>>]
    IN  IF r.threw
        THEN [threw |-> TRUE, geometry |-> g]
        ELSE [threw |-> FALSE,
              geometry |->
                [g EXCEPT
                    !.indexList = r.indicesOut,
                    !.attributes =
                        [a \in DOMAIN g.attributes |->
                            [g.attributes[a] EXCEPT
                                !.values =
                                    reorderElements(g.attributes[a].values,
                                        g.attributes[a].componentsPerAttribute,
                                        r.xref, numVertices, 0, <<>>)]]]]

(***************************************************************************)
(* The pre-vertex-cache specification: any geometry of up to               *)
(* PreMaxVertices vertices, with or without an index list, the index list  *)
(* holding indices up to PreMaxVertices (so also indices of no vertex);    *)
(* reorderForPreVertexCache called on it any number of times.              *)
(***************************************************************************)
PreMaxVertices == 4
PreMaxLen == 4

InitPreVertexCache ==
    /\ \E names \in AttributeSchemas, n \in 0..PreMaxVertices,
          indexed \in BOOLEAN :
        \E indexList \in IF indexed
                          THEN SeqsUpTo(0..PreMaxVertices, PreMaxLen)
                          ELSE {<<>>} :
            geometry = MakeGeometry(names, n, indexed, indexList, "TRIANGLES")
    /\ before = geometry
    /\ Constructed
    /\ lastOp = "none"
    /\ arg = undefined
    /\ threw = FALSE
    /\ geometries = <<>>
    /\ aliased = <<>>
    /\ instanceList = <<>>
    /\ combined = NoGeometry

ReorderForPreVertexCache ==
    /\ LET r == reorderForPreVertexCache(geometry)
       IN  geometry' = r.geometry /\ threw' = r.threw
    /\ before' = geometry
    /\ lastOp' = "reorderForPreVertexCache"
    /\ arg' = undefined
    /\ UNCHANGED polylinesVars
    /\ UNCHANGED <<geometries, aliased, instanceList, combined>>

NextPreVertexCache == ReorderForPreVertexCache

SpecPreVertexCache == InitPreVertexCache /\ [][NextPreVertexCache]_vars

(***************************************************************************)
(* Claims about reorderForPreVertexCache.                                  *)
(***************************************************************************)
PreCalled == lastOp = "reorderForPreVertexCache"

\* Every index of g's index list is the index of one of its vertices.
IndicesInRange(g) ==
    \A p \in 1..Len(g.indexList) :
        g.indexList[p] >= 0 /\ g.indexList[p] < computeNumberOfVertices(g)

\* C4: called on a geometry whose indices are all below its vertex count,
\* reorderForPreVertexCache returns an index list of the same length that
\* numbers the vertices in first-reference order: two positions hold equal
\* indices after the call iff they did before it, and a vertex's first
\* reference gets the number of distinct vertices referenced before it.
C4_FirstReferenceOrder ==
    (PreCalled /\ before.indexed /\ IndicesInRange(before))
    => LET in == before.indexList
           out == geometry.indexList
       IN  /\ ~threw
           /\ Len(out) = Len(in)
           /\ \A p, q \in 1..Len(in) : (out[p] = out[q]) <=> (in[p] = in[q])
           /\ \A p \in 1..Len(in) :
                (\A q \in 1..(p - 1) : in[q] # in[p])
                => out[p] = Cardinality({in[q] : q \in 1..(p - 1)})

\* [2,2,0,1] over 4 vertices came back as [0,0,1,2], the data of old vertex 2
\* in slot 0.
C4_Witness ==
    /\ PreCalled
    /\ before.indexed
    /\ computeNumberOfVertices(before) = 4
    /\ before.indexList = <<2, 2, 0, 1>>
    /\ geometry.indexList = <<0, 0, 1, 2>>
    /\ VertexTuple(geometry, "position", 0) = <<120, 121, 122>>

\* C5: for every attribute and every position p of the index list, the tuple
\* at slot newIndex[p] after the call is the tuple that was at slot
\* oldIndex[p] before it.
C5_AssociationsPreserved ==
    (PreCalled /\ before.indexed)
    => /\ Len(geometry.indexList) = Len(before.indexList)
       /\ DOMAIN geometry.attributes = DOMAIN before.attributes
       /\ \A a \in DOMAIN before.attributes :
            \A p \in 1..Len(before.indexList) :
                VertexTuple(geometry, a, geometry.indexList[p])
                    = VertexTuple(before, a, before.indexList[p])

\* A 3-cycle of the vertices (old 1 -> 0, 2 -> 1, 0 -> 2) was applied to two
\* attributes.
C5_Witness ==
    /\ PreCalled
    /\ before.indexed
    /\ computeNumberOfVertices(before) = 3
    /\ DOMAIN before.attributes = {"position", "st"}
    /\ before.indexList = <<1, 2, 0>>
    /\ geometry.indexList = <<0, 1, 2>>
    /\ geometry.attributes["st"].values = <<210, 211, 220, 221, 200, 201>>

\* C6: reorderForPreVertexCache ends in an error whenever the index list
\* holds an index >= the vertex count, wherever it stands in the list.
C6_OutOfRangeIndexThrows ==
    (PreCalled /\ before.indexed
        /\ \E p \in 1..Len(before.indexList) :
              before.indexList[p] >= computeNumberOfVertices(before))
    => threw

\* C7: reorderForPreVertexCache called on its own output (for any input,
\* also one with vertices no index references) returns the same index list
\* and the same attribute values.
C7_Idempotent ==
    PreCalled
    => LET again == reorderForPreVertexCache(geometry)
       IN  ~again.threw /\ again.geometry = geometry

\* The output of a call that renumbered the vertices and dropped one no index
\* references.
C7_Witness ==
    /\ PreCalled
    /\ before.indexed
    /\ computeNumberOfVertices(before) = 4
    /\ before.indexList = <<3, 1, 3>>
    /\ geometry.indexList = <<0, 1, 0>>
    /\ computeNumberOfVertices(geometry) = 2
    /\ geometry # before

\* C8: reorderForPreVertexCache called on a geometry with no index list
\* returns it unchanged: every attribute keeps its values in their slots.
C8_NoIndexListUnchanged ==
    (PreCalled /\ ~before.indexed) => geometry = before

(***************************************************************************)
(* Tipsify.tipsify, the triangle reordering reorderForPostVertexCache      *)
(* calls: a greedy pass over a simulated first-in first-out vertex cache.  *)
(* The triangle emitted next is the one, among those not yet emitted,      *)
(* with the highest score, the earliest in the input among equals; a       *)
(* vertex counts for a triangle's score when it is in the cache, the more  *)
(* the fewer uses it has left.                                             *)
(***************************************************************************)
defaultCacheSize == 24

Range(seq) == {seq[k] : k \in 1..Len(seq)}

\* The t-th (from 0) triangle of an index list.
TriangleAt(indices, t) ==
    <<At(indices, 3 * t), At(indices, 3 * t + 1), At(indices, 3 * t + 2)>>

\* The references to vertex v in the triangles not yet emitted.
remainingUses(indices, emitted, v) ==
    Cardinality({p \in 0..(Len(indices) - 1) :
                    (p \div 3) \notin emitted /\ At(indices, p) = v})

vertexScore(indices, maximumIndex, emitted, cache, v) ==
    IF v \in Range(cache) /\ v <= maximumIndex
    THEN Len(indices) + 1 - remainingUses(indices, emitted, v)
    ELSE 0

triangleScore(indices, maximumIndex, emitted, cache, t) ==
    vertexScore(indices, maximumIndex, emitted, cache, At(indices, 3 * t))
    + vertexScore(indices, maximumIndex, emitted, cache, At(indices, 3 * t + 1))
    + vertexScore(indices, maximumIndex, emitted, cache, At(indices, 3 * t + 2))

bestTriangle(indices, maximumIndex, emitted, cache) ==
    LET left == (0..((Len(indices) \div 3) - 1)) \ emitted
        score(t) == triangleScore(indices, maximumIndex, emitted, cache, t)
    IN  CHOOSE t \in left :
            \A u \in left : score(t) > score(u) \/ (score(t) = score(u) /\ t <= u)

\* A vertex enters the cache; the oldest leaves when the capacity is passed.
pushVertex(cache, cacheSize, v) ==
    IF v \in Range(cache) THEN cache
    ELSE IF Len(cache) + 1 > cacheSize THEN Tail(Append(cache, v))
    ELSE Append(cache, v)

RECURSIVE tipsifyLoop(_, _, _, _, _, _)
tipsifyLoop(indices, maximumIndex, cacheSize, emitted, cache, out) ==
    IF Cardinality(emitted) < Len(indices) \div 3
    THEN LET t == bestTriangle(indices, maximumIndex, emitted, cache)
             tri == TriangleAt(indices, t)
         IN  tipsifyLoop(indices, maximumIndex, cacheSize, emitted \cup {t},
                 pushVertex(pushVertex(pushVertex(cache, cacheSize, tri[1]),
                                       cacheSize, tri[2]), cacheSize, tri[3]),
                 out \o tri)
    ELSE out

\* [threw, indices]: a cache size of two or less, or a length that is no
\* multiple of three, is an error.
tipsify(indices, maximumIndex, cacheSize) ==
    LET size == IF cacheSize = undefined THEN defaultCacheSize ELSE cacheSize
    IN  IF Len(indices) % 3 # 0 \/ size <= 2
        THEN [threw |-> TRUE, indices |-> indices]
        ELSE [threw |-> FALSE,
              indices |-> tipsifyLoop(indices, maximumIndex, size, {}, <<>>, <<>>)]

(***************************************************************************)
(* reorderForPostVertexCache                                               *)
(***************************************************************************)
\* The loop of lines 285-289.
RECURSIVE maximumIndexLoop(_, _, _)
maximumIndexLoop(indices, j, maximumIndex) ==
    IF j < Len(indices)
    THEN maximumIndexLoop(indices, j + 1,
             IF At(indices, j) > maximumIndex THEN At(indices, j) ELSE maximumIndex)
    ELSE maximumIndex

\* The call with maximumIndex handed to Tipsify as the cache size.
reorderForPostVertexCacheMaximumAsCacheSize(g, cacheCapacity) ==
    IF g.primitiveType = "TRIANGLES" /\ g.indexed
    THEN LET maximumIndex == maximumIndexLoop(g.indexList, 0, 0)
             r == tipsify(g.indexList, maximumIndex, maximumIndex)
         IN  IF r.threw
             THEN [threw |-> TRUE, geometry |-> g]
             ELSE [threw |-> FALSE, geometry |-> [g EXCEPT !.indexList = r.indices]]
    ELSE [threw |-> FALSE, geometry |-> g]

\* The call with Tipsify called whatever the primitive type.
reorderForPostVertexCacheAnyType(g, cacheCapacity) ==
    IF g.indexed
    THEN LET maximumIndex == maximumIndexLoop(g.indexList, 0, 0)
             r == tipsify(g.indexList, maximumIndex, cacheCapacity)
         IN  IF r.threw
             THEN [threw |-> TRUE, geometry |-> g]
             ELSE [threw |-> FALSE, geometry |-> [g EXCEPT !.indexList = r.indices]]
    ELSE [threw |-> FALSE, geometry |-> g]

\* The call with geometry.indexList emptied before Tipsify is called.
reorderForPostVertexCacheEmptyingFirst(g, cacheCapacity) ==
    IF g.primitiveType = "TRIANGLES" /\ g.indexed
    THEN LET maximumIndex == maximumIndexLoop(g.indexList, 0, 0)
             r == tipsify(g.indexList, maximumIndex, cacheCapacity)
         IN  IF r.threw
             THEN [threw |-> TRUE, geometry |-> [g EXCEPT !.indexList = <<>>]]
             ELSE [threw |-> FALSE, geometry |-> [g EXCEPT !.indexList = r.indices]]
    ELSE [threw |-> FALSE, geometry |-> g]

\* The call: [threw, geometry].
reorderForPostVertexCache(g, cacheCapacity) ==
    IF g.primitiveType = "TRIANGLES" /\ g.indexed
    THEN LET maximumIndex == maximumIndexLoop(g.indexList, 0, 0)
             r == tipsify(g.indexList, maximumIndex, cacheCapacity)
         IN  IF r.threw
             THEN [threw |-> TRUE, geometry |-> g]
             ELSE [threw |-> FALSE, geometry |-> [g EXCEPT !.indexList = r.indices]]
    ELSE [threw |-> FALSE, geometry |-> g]

(***************************************************************************)
(* The post-vertex-cache specification: any geometry of PostMaxVertices    *)
(* vertices whose indices are in range, reorderForPostVertexCache called   *)
(* on it once with no cache capacity, 2 or 3 (what a call returns is a     *)
(* geometry the specification also starts from).  For LINES, which the     *)
(* call leaves alone, index lists of up to three indices.                  *)
(***************************************************************************)
PostMaxVertices == 2
PostMaxLen == 9

CacheCapacities == {undefined, 2, 3}

InitPostVertexCache ==
    /\ \E indexed \in BOOLEAN, primitiveType \in {"TRIANGLES", "LINES"} :
        \E indexList \in IF ~indexed THEN {<<>>}
                          ELSE IF primitiveType = "TRIANGLES"
                          THEN SeqsUpTo(0..(PostMaxVertices - 1), PostMaxLen)
                          ELSE SeqsUpTo(0..(PostMaxVertices - 1), 3) :
            geometry = MakeGeometry({"position"}, PostMaxVertices, indexed,
                                    indexList, primitiveType)
    /\ before = geometry
    /\ Constructed
    /\ lastOp = "none"
    /\ arg = undefined
    /\ threw = FALSE
    /\ geometries = <<>>
    /\ aliased = <<>>
    /\ instanceList = <<>>
    /\ combined = NoGeometry

ReorderForPostVertexCache ==
    \E cacheCapacity \in CacheCapacities :
        /\ lastOp = "none"
        /\ LET r == reorderForPostVertexCache(geometry, cacheCapacity)
           IN  geometry' = r.geometry /\ threw' = r.threw
        /\ before' = geometry
        /\ lastOp' = "reorderForPostVertexCache"
        /\ arg' = cacheCapacity
        /\ UNCHANGED polylinesVars
        /\ UNCHANGED <<geometries, aliased, instanceList, combined>>

NextPostVertexCache == ReorderForPostVertexCache

SpecPostVertexCache == InitPostVertexCache /\ [][NextPostVertexCache]_vars

(***************************************************************************)
(* Claims about reorderForPostVertexCache.                                 *)
(***************************************************************************)
PostCalled == lastOp = "reorderForPostVertexCache"

\* The triangles of an index list whose length is a multiple of three.
Triangles(indices) == {TriangleAt(indices, t) : t \in 0..((Len(indices) \div 3) - 1)}

\* How many times the triangle tri stands in an index list.
TriangleCount(indices, tri) ==
    Cardinality({t \in 0..((Len(indices) \div 3) - 1) : TriangleAt(indices, t) = tri})

\* C9: called on an indexed TRIANGLES geometry whose index list is a whole
\* number of triangles, with a cache capacity > 2 (or none, so 24),
\* reorderForPostVertexCache only reorders the triangles: it does not fail, the
\* index list keeps its length and holds each triangle as many times as before,
\* and the attributes and the primitive type are as they were.
C9_OnlyReordersTriangles ==
    (PostCalled /\ before.primitiveType = "TRIANGLES" /\ before.indexed
        /\ Len(before.indexList) % 3 = 0 /\ (arg = undefined \/ arg > 2))
    => /\ ~threw
       /\ Len(geometry.indexList) = Len(before.indexList)
       /\ \A tri \in Triangles(before.indexList) \cup Triangles(geometry.indexList) :
            TriangleCount(geometry.indexList, tri)
                = TriangleCount(before.indexList, tri)
       /\ geometry.attributes = before.attributes
       /\ geometry.primitiveType = before.primitiveType
       /\ geometry.indexed

\* Three triangles came back in another order: the third, which shares vertex
\* 0 with the first, ahead of the second.
C9_Witness ==
    /\ PostCalled
    /\ arg = 3
    /\ before.primitiveType = "TRIANGLES"
    /\ before.indexList = <<0, 0, 0, 1, 1, 1, 0, 0, 1>>
    /\ geometry.indexList = <<0, 0, 0, 0, 0, 1, 1, 1, 1>>

(***************************************************************************)
(* fitToUnsignedShortIndices                                               *)
(***************************************************************************)
\* var sixtyFourK = 64 * 1024, scaled down: the number of vertices one
\* output geometry may hold.  It is at least 3, the indices of a triangle.
sixtyFourK == 3

copyAttributesDescriptions(attributes) ==
    [a \in DOMAIN attributes |->
        [componentDatatype |-> attributes[a].componentDatatype,
         componentsPerAttribute |-> attributes[a].componentsPerAttribute,
         normalize |-> attributes[a].normalize,
         values |-> <<>>]]

\* The components of vertex index of every source attribute, pushed onto the
\* destination's values (undefined where the source has none).
copyVertex(destinationAttributes, sourceAttributes, index) ==
    [a \in DOMAIN sourceAttributes |->
        [destinationAttributes[a] EXCEPT
            !.values = @ \o VertexTuple([attributes |-> sourceAttributes], a, index)]]

\* oldToNewIndex, an array used as a map: a key never written reads undefined.
MapGet(map, x) == IF x \in DOMAIN map THEN map[x] ELSE undefined

MapSet(map, x, i) ==
    [k \in DOMAIN map \cup {x} |-> IF k = x THEN i ELSE map[k]]

NewSplitState(g, done) ==
    [oldToNewIndex |-> <<>>,
     newIndices |-> <<>>,
     currentIndex |-> 0,
     newAttributes |-> copyAttributesDescriptions(g.attributes),
     geometries |-> done]

\* The inner loop copying, for a vertex met for the first time, the source
\* vertex at the new index instead of the one at the old index.
RECURSIVE addPrimitiveCopyingNewIndex(_, _, _, _, _)
addPrimitiveCopyingNewIndex(g, st, j, k, indicesPerPrimitive) ==
    IF k < indicesPerPrimitive
    THEN LET x == At(g.indexList, j + k)
             i == MapGet(st.oldToNewIndex, x)
         IN  addPrimitiveCopyingNewIndex(g,
                 IF i = undefined
                 THEN [st EXCEPT
                         !.currentIndex = @ + 1,
                         !.oldToNewIndex = MapSet(@, x, st.currentIndex),
                         !.newAttributes = copyVertex(@, g.attributes,
                                                      st.currentIndex),
                         !.newIndices = Append(@, st.currentIndex)]
                 ELSE [st EXCEPT !.newIndices = Append(@, i)],
                 j, k + 1, indicesPerPrimitive)
    ELSE st

\* The inner loop of lines 377-386: the indices j .. j + indicesPerPrimitive - 1.
RECURSIVE addPrimitive(_, _, _, _, _)
addPrimitive(g, st, j, k, indicesPerPrimitive) ==
    IF k < indicesPerPrimitive
    THEN LET x == At(g.indexList, j + k)
             i == MapGet(st.oldToNewIndex, x)
         IN  addPrimitive(g,
                 IF i = undefined
                 THEN [st EXCEPT
                         !.currentIndex = @ + 1,
                         !.oldToNewIndex = MapSet(@, x, st.currentIndex),
                         !.newAttributes = copyVertex(@, g.attributes, x),
                         !.newIndices = Append(@, st.currentIndex)]
                 ELSE [st EXCEPT !.newIndices = Append(@, i)],
                 j, k + 1, indicesPerPrimitive)
    ELSE st

SplitGeometry(g, st) ==
    [attributes |-> st.newAttributes,
     indexed |-> TRUE,
     indexList |-> st.newIndices,
     primitiveType |-> g.primitiveType]

\* Lines 388-400 sealing only once currentIndex itself has passed sixtyFourK.
sealWhenPassed(g, st, indicesPerPrimitive) ==
    IF st.currentIndex > sixtyFourK
    THEN NewSplitState(g, Append(st.geometries, SplitGeometry(g, st)))
    ELSE st

\* Lines 388-400: the output is sealed when one more primitive may not fit.
sealWhenFull(g, st, indicesPerPrimitive) ==
    IF st.currentIndex + indicesPerPrimitive > sixtyFourK
    THEN NewSplitState(g, Append(st.geometries, SplitGeometry(g, st)))
    ELSE st

\* The loop advancing, and sealing, one index at a time.
RECURSIVE splitLoopSealingAfterEachIndex(_, _, _, _)
splitLoopSealingAfterEachIndex(g, st, j, indicesPerPrimitive) ==
    IF j < Len(g.indexList)
    THEN splitLoopSealingAfterEachIndex(g,
             sealWhenFull(g, addPrimitive(g, st, j, 0, 1), indicesPerPrimitive),
             j + 1, indicesPerPrimitive)
    ELSE st

\* The loop of lines 376-401.
RECURSIVE splitLoop(_, _, _, _)
splitLoop(g, st, j, indicesPerPrimitive) ==
    IF j < Len(g.indexList)
    THEN splitLoop(g,
             sealWhenFull(g, addPrimitive(g, st, j, 0, indicesPerPrimitive),
                          indicesPerPrimitive),
             j + indicesPerPrimitive, indicesPerPrimitive)
    ELSE st

\* The call with the type check made only where the geometry is split.
fitToUnsignedShortIndicesCheckingWhenSplit(g) ==
    IF g.indexed /\ computeNumberOfVertices(g) > sixtyFourK
    THEN IF g.primitiveType \notin {"TRIANGLES", "LINES", "POINTS"}
         THEN [threw |-> TRUE, geometries |-> <<>>, aliased |-> <<>>]
         ELSE LET indicesPerPrimitive ==
                      CASE g.primitiveType = "TRIANGLES" -> 3
                        [] g.primitiveType = "LINES" -> 2
                        [] g.primitiveType = "POINTS" -> 1
                  st == splitLoop(g, NewSplitState(g, <<>>), 0, indicesPerPrimitive)
                  out == IF Len(st.newIndices) # 0
                         THEN Append(st.geometries, SplitGeometry(g, st))
                         ELSE st.geometries
              IN  [threw |-> FALSE, geometries |-> out,
                   aliased |-> [n \in 1..Len(out) |-> FALSE]]
    ELSE [threw |-> FALSE, geometries |-> <<g>>, aliased |-> <<TRUE>>]

\* The call pushing a new Geometry with the argument's contents where nothing
\* is to be split.
fitToUnsignedShortIndicesCopying(g) ==
    IF g.indexed /\ g.primitiveType \notin {"TRIANGLES", "LINES", "POINTS"}
    THEN [threw |-> TRUE, geometries |-> <<>>, aliased |-> <<>>]
    ELSE IF g.indexed /\ computeNumberOfVertices(g) > sixtyFourK
    THEN LET indicesPerPrimitive ==
                 CASE g.primitiveType = "TRIANGLES" -> 3
                   [] g.primitiveType = "LINES" -> 2
                   [] g.primitiveType = "POINTS" -> 1
             st == splitLoop(g, NewSplitState(g, <<>>), 0, indicesPerPrimitive)
             out == IF Len(st.newIndices) # 0
                    THEN Append(st.geometries, SplitGeometry(g, st))
                    ELSE st.geometries
         IN  [threw |-> FALSE, geometries |-> out,
              aliased |-> [n \in 1..Len(out) |-> FALSE]]
    ELSE [threw |-> FALSE, geometries |-> <<g>>, aliased |-> <<FALSE>>]

\* The call: [threw, geometries, aliased].  The geometries of a split are new
\* Geometry objects; where nothing is to be split the argument itself is
\* pushed.
fitToUnsignedShortIndices(g) ==
    IF g.indexed /\ g.primitiveType \notin {"TRIANGLES", "LINES", "POINTS"}
    THEN [threw |-> TRUE, geometries |-> <<>>, aliased |-> <<>>]
    ELSE IF g.indexed /\ computeNumberOfVertices(g) > sixtyFourK
    THEN LET indicesPerPrimitive ==
                 CASE g.primitiveType = "TRIANGLES" -> 3
                   [] g.primitiveType = "LINES" -> 2
                   [] g.primitiveType = "POINTS" -> 1
             st == splitLoop(g, NewSplitState(g, <<>>), 0, indicesPerPrimitive)
             out == IF Len(st.newIndices) # 0
                    THEN Append(st.geometries, SplitGeometry(g, st))
                    ELSE st.geometries
         IN  [threw |-> FALSE, geometries |-> out,
              aliased |-> [n \in 1..Len(out) |-> FALSE]]
    ELSE [threw |-> FALSE, geometries |-> <<g>>, aliased |-> <<TRUE>>]

(***************************************************************************)
(* The splitting specification: geometries of sixtyFourK vertices (not     *)
(* split) and of sixtyFourK + 1 (split), their indices in range;           *)
(* fitToUnsignedShortIndices called on them once (the call leaves its      *)
(* argument as it was).  Index lists hold up to FitMaxLen indices for      *)
(* TRIANGLES, one fewer for LINES and POINTS, and up to one index for the   *)
(* primitive types the call refuses.                                       *)
(***************************************************************************)
FitMaxLen == 6

InitFit ==
    /\ \E n \in {sixtyFourK, sixtyFourK + 1}, indexed \in BOOLEAN,
          primitiveType \in PrimitiveTypes :
        \E indexList \in IF ~indexed THEN {<<>>}
                          ELSE IF primitiveType = "TRIANGLES"
                          THEN SeqsUpTo(0..(n - 1), FitMaxLen)
                          ELSE IF primitiveType \in {"LINES", "POINTS"}
                          THEN SeqsUpTo(0..(n - 1), FitMaxLen - 1)
                          ELSE SeqsUpTo(0..(n - 1), 1) :
            geometry = MakeGeometry({"position", "st"}, n, indexed,
                                    indexList, primitiveType)
    /\ before = geometry
    /\ Constructed
    /\ lastOp = "none"
    /\ arg = undefined
    /\ threw = FALSE
    /\ geometries = <<>>
    /\ aliased = <<>>
    /\ instanceList = <<>>
    /\ combined = NoGeometry

FitToUnsignedShortIndices ==
    /\ lastOp = "none"
    /\ LET r == fitToUnsignedShortIndices(geometry)
       IN  geometries' = r.geometries /\ threw' = r.threw
                /\ aliased' = r.aliased
    /\ before' = geometry
    /\ lastOp' = "fitToUnsignedShortIndices"
    /\ arg' = undefined
    /\ UNCHANGED polylinesVars
    /\ UNCHANGED <<geometry, instanceList, combined>>

NextFit == FitToUnsignedShortIndices

SpecFit == InitFit /\ [][NextFit]_vars

(***************************************************************************)
(* Claims about fitToUnsignedShortIndices.                                 *)
(***************************************************************************)
FitCalled == lastOp = "fitToUnsignedShortIndices"

\* The call took the splitting branch.
WasSplit ==
    FitCalled /\ ~threw /\ before.indexed
        /\ computeNumberOfVertices(before) > sixtyFourK

\* C10: every geometry fitToUnsignedShortIndices returns for a geometry it
\* splits has at most sixtyFourK vertices (in every attribute), and every
\* index of its index list is below sixtyFourK and below its own vertex count.
C10_OutputsFitUnsignedShort ==
    WasSplit
    => \A n \in 1..Len(geometries) :
        LET out == geometries[n]
        IN  /\ \A a \in DOMAIN out.attributes :
                 Len(out.attributes[a].values)
                    = out.attributes[a].componentsPerAttribute
                        * computeNumberOfVertices(out)
            /\ computeNumberOfVertices(out) <= sixtyFourK
            /\ \A p \in 1..Len(out.indexList) :
                 /\ out.indexList[p] >= 0
                 /\ out.indexList[p] < sixtyFourK
                 /\ out.indexList[p] < computeNumberOfVertices(out)

\* Two triangles over four vertices came back as two geometries, the second
\* holding old vertices 3, 0, 1 as its vertices 0, 1, 2.
C10_Witness ==
    /\ WasSplit
    /\ before.primitiveType = "TRIANGLES"
    /\ before.indexList = <<0, 1, 2, 3, 0, 1>>
    /\ Len(geometries) = 2
    /\ geometries[2].indexList = <<0, 1, 2>>
    /\ geometries[2].attributes["position"].values
         = <<130, 131, 132, 100, 101, 102, 110, 111, 112>>

\* indicesPerPrimitive of the three types the function accepts.
IndicesPerPrimitive(primitiveType) ==
    CASE primitiveType = "TRIANGLES" -> 3
      [] primitiveType = "LINES" -> 2
      [] primitiveType = "POINTS" -> 1

\* The source index list holds whole primitives only.
WholePrimitives ==
    Len(before.indexList) % IndicesPerPrimitive(before.primitiveType) = 0

\* The positions of the returned index lists, output after output:
\* [out, at] is position at of geometries[out].indexList.
RECURSIVE OutputPositions(_, _)
OutputPositions(gs, n) ==
    IF n > Len(gs) THEN <<>>
    ELSE [q \in 1..Len(gs[n].indexList) |-> [out |-> n, at |-> q]]
            \o OutputPositions(gs, n + 1)

\* Every position of the returned index lists selects, in every attribute,
\* the tuple the same position of the source index list selects in the source.
AssociationsKept ==
    LET flat == OutputPositions(geometries, 1)
    IN  /\ Len(flat) = Len(before.indexList)
        /\ \A p \in 1..Len(flat) : \A a \in DOMAIN before.attributes :
             VertexTuple(geometries[flat[p].out], a,
                         geometries[flat[p].out].indexList[flat[p].at])
               = VertexTuple(before, a, before.indexList[p])

\* Every returned geometry holds the vertices its index list references, each
\* once, and no other vertex.
OneCopyOfEachReferencedVertex ==
    \A n \in 1..Len(geometries) :
        LET out == geometries[n]
            count == computeNumberOfVertices(out)
        IN  /\ \A a \in DOMAIN out.attributes :
                 Len(out.attributes[a].values)
                    = count * out.attributes[a].componentsPerAttribute
            /\ {out.indexList[q] : q \in 1..Len(out.indexList)} = 0..(count - 1)
            /\ \A v, w \in 0..(count - 1) :
                 v # w => VertexTuple(out, "position", v)
                            # VertexTuple(out, "position", w)

\* C11 as stated, for every index list: fitToUnsignedShortIndices preserves
\* the index-to-attribute associations (the returned index lists, one after
\* the other, are as long as the source's and select the same tuples position
\* by position) and every returned geometry holds one copy of each vertex it
\* references and no other.
C11_AssociationsPreservedAnyLength ==
    WasSplit => AssociationsKept /\ OneCopyOfEachReferencedVertex

\* C11: for a source index list of whole primitives, fitToUnsignedShortIndices
\* preserves the index-to-attribute associations (the returned index lists,
\* one after the other, are as long as the source's and select the same tuples
\* position by position) and every returned geometry holds one copy of each
\* vertex it references and no other.
C11_AssociationsPreservedWholePrimitives ==
    WasSplit /\ WholePrimitives
        => AssociationsKept /\ OneCopyOfEachReferencedVertex

\* Two triangles sharing vertices 0 and 1 were split: both outputs hold their
\* own copy of vertices 0 and 1.
C11_Witness ==
    /\ WasSplit /\ WholePrimitives
    /\ before.indexList = <<0, 1, 2, 1, 0, 3>>
    /\ Len(geometries) = 2
    /\ geometries[2].indexList = <<0, 1, 2>>
    /\ geometries[2].attributes["st"].values = <<210, 211, 200, 201, 230, 231>>

\* The source vertex a returned vertex is the copy of, read off its position.
SourceVertex(out, v) ==
    (VertexTuple(out, "position", v)[1] - AttributeBase("position")) \div 10

\* C12: for a source index list of whole primitives, every geometry
\* fitToUnsignedShortIndices returns has a non-empty index list of whole
\* primitives, and the returned lists read one after the other, each index
\* taken back to the source vertex it stands for, are the source index list:
\* the source primitives in source order, none cut in two.
C12_PrimitivesNeverSplit ==
    WasSplit /\ WholePrimitives
    => LET flat == OutputPositions(geometries, 1)
       IN  /\ \A n \in 1..Len(geometries) :
                /\ Len(geometries[n].indexList) > 0
                /\ Len(geometries[n].indexList)
                     % IndicesPerPrimitive(before.primitiveType) = 0
           /\ [p \in 1..Len(flat) |->
                 SourceVertex(geometries[flat[p].out],
                              geometries[flat[p].out].indexList[flat[p].at])]
                = before.indexList

\* Two lines over four vertices: after the first line the output had room for
\* one more vertex but not for a line, so the second line went whole into a
\* second output.
C12_Witness ==
    /\ WasSplit
    /\ before.primitiveType = "LINES"
    /\ before.indexList = <<0, 1, 2, 3>>
    /\ Len(geometries) = 2
    /\ geometries[1].indexList = <<0, 1>>
    /\ geometries[2].indexList = <<0, 1>>
    /\ geometries[2].attributes["position"].values
         = <<120, 121, 122, 130, 131, 132>>

\* The primitive types the function accepts.
AcceptedTypes == {"TRIANGLES", "LINES", "POINTS"}

\* The list returned is the argument alone, the very object, as it was.
ReturnedArgumentItself ==
    /\ ~threw
    /\ geometries = <<before>>
    /\ aliased = <<TRUE>>
    /\ geometry = before

\* C13 as stated: whenever the geometry has at most sixtyFourK vertices, or no
\* index list, fitToUnsignedShortIndices returns a list of one element, the
\* argument itself, unmodified and not copied.
C13_SmallOrUnindexedReturnsArgument ==
    FitCalled /\ (computeNumberOfVertices(before) <= sixtyFourK
                    \/ ~before.indexed)
        => ReturnedArgumentItself

\* C13: whenever the geometry has no index list, or has one of an accepted
\* primitive type and at most sixtyFourK vertices, fitToUnsignedShortIndices
\* returns a list of one element, the argument itself, unmodified and not
\* copied.
C13_UnsplitReturnsArgument ==
    FitCalled /\ (~before.indexed
                    \/ (before.primitiveType \in AcceptedTypes
                          /\ computeNumberOfVertices(before) <= sixtyFourK))
        => ReturnedArgumentItself

\* An indexed geometry of exactly sixtyFourK vertices came back as itself.
C13_Witness ==
    /\ FitCalled
    /\ before.indexed
    /\ before.primitiveType = "TRIANGLES"
    /\ computeNumberOfVertices(before) = sixtyFourK
    /\ Len(before.indexList) = 3
    /\ ReturnedArgumentItself

\* C14 as stated: fitToUnsignedShortIndices throws, and returns no list, for
\* every geometry whose primitive type is not TRIANGLES, LINES or POINTS.
C14_EveryOtherTypeThrows ==
    FitCalled /\ before.primitiveType \notin AcceptedTypes
        => threw /\ geometries = <<>>

\* C14: fitToUnsignedShortIndices throws, and returns no list, for every
\* geometry that has an index list and whose primitive type is not TRIANGLES,
\* LINES or POINTS; a geometry with no index list is never refused.
C14_IndexedOtherTypeThrows ==
    /\ FitCalled /\ before.indexed /\ before.primitiveType \notin AcceptedTypes
        => threw /\ geometries = <<>>
    /\ FitCalled /\ ~before.indexed => ~threw

\* An indexed triangle strip of no more than sixtyFourK vertices was refused.
C14_Witness ==
    /\ FitCalled
    /\ before.indexed
    /\ before.primitiveType = "TRIANGLE_STRIP"
    /\ computeNumberOfVertices(before) <= sixtyFourK
    /\ threw
    /\ geometries = <<>>

(***************************************************************************)
(* combine                                                                 *)
(*                                                                         *)
(* An instance is [geometry, modelMatrix]; a geometry given to combine     *)
(* also has a boundingSphere (undefined or a radius about the origin) and  *)
(* indexListType, the kind of array its indexList is.                      *)
(***************************************************************************)
\* 60 * 1024, scaled down: from this many indices on the combined index list
\* is a Uint32Array.
sixtyK == 3

\* The number of values of an unsigned 16-bit integer, 64 * 1024 scaled down
\* (above sixtyK, as 65536 is above 61440).
uint16Range == 4

\* The number of values of an unsigned 32-bit integer, the square of the
\* above.
uint32Range == uint16Range * uint16Range

\* Matrix4.equals(left, right): componentwise equality.
Matrix4equals(left, right) == left = right

\* What storing v in a typed array created by
\* componentDatatype.createTypedArray keeps of it.
TypedValue(componentDatatype, v) ==
    CASE componentDatatype = "FLOAT" -> v
      [] componentDatatype = "UNSIGNED_BYTE" -> v % 256

\* componentDatatype.createTypedArray(length): zero-filled.
createTypedArray(componentDatatype, length) == [k \in 1..length |-> 0]

\* What storing v in a Uint16Array or a Uint32Array keeps of it.
TypedIndex(indexListType, v) ==
    CASE indexListType = "Uint16Array" -> v % uint16Range
      [] indexListType = "Uint32Array" -> v % uint32Range

\* BoundingSphere.union of two spheres about the origin.
BoundingSphereUnion(left, right) == IF left >= right THEN left ELSE right

\* Lines 618-631 comparing attribute name of the first instance with the
\* others on componentDatatype and componentsPerAttribute only.
inAllGeometriesIgnoringNormalize(instances, name) ==
    LET attribute == instances[1].geometry.attributes[name]
    IN  \A i \in 2..Len(instances) :
            /\ name \in DOMAIN instances[i].geometry.attributes
            /\ LET otherAttribute == instances[i].geometry.attributes[name]
               IN  /\ attribute.componentDatatype = otherAttribute.componentDatatype
                   /\ attribute.componentsPerAttribute
                        = otherAttribute.componentsPerAttribute

\* Lines 618-631: attribute name of the first instance exists in every other
\* instance with the same componentDatatype, componentsPerAttribute and
\* normalize.
inAllGeometries(instances, name) ==
    LET attribute == instances[1].geometry.attributes[name]
    IN  \A i \in 2..Len(instances) :
            /\ name \in DOMAIN instances[i].geometry.attributes
            /\ LET otherAttribute == instances[i].geometry.attributes[name]
               IN  /\ attribute.componentDatatype = otherAttribute.componentDatatype
                   /\ attribute.componentsPerAttribute
                        = otherAttribute.componentsPerAttribute
                   /\ attribute.normalize = otherAttribute.normalize

\* numberOfComponents of lines 614 and 630.
RECURSIVE numberOfComponents(_, _, _)
numberOfComponents(instances, name, i) ==
    IF i > Len(instances) THEN 0
    ELSE Len(instances[i].geometry.attributes[name].values)
            + numberOfComponents(instances, name, i + 1)

findAttributesInAllGeometries(instances) ==
    LET attributes0 == instances[1].geometry.attributes
    IN  [name \in {a \in DOMAIN attributes0 : inAllGeometries(instances, a)} |->
            [componentDatatype |-> attributes0[name].componentDatatype,
             componentsPerAttribute |-> attributes0[name].componentsPerAttribute,
             normalize |-> attributes0[name].normalize,
             values |-> createTypedArray(attributes0[name].componentDatatype,
                            numberOfComponents(instances, name, 1))]]

\* Lines 696-698: sourceValues written to values from position k on (a typed
\* array ignores a write past its end).
writeValues(values, k, sourceValues, componentDatatype) ==
    [q \in 1..Len(values) |->
        IF q > k /\ q <= k + Len(sourceValues)
        THEN TypedValue(componentDatatype, sourceValues[q - k])
        ELSE values[q]]

\* Lines 692-699 with k set to 0 for every instance.
RECURSIVE combineValuesRestartingK(_, _, _, _, _)
combineValuesRestartingK(values, k, instances, i, name) ==
    IF i > Len(instances) THEN values
    ELSE LET sourceValues == instances[i].geometry.attributes[name].values
         IN  combineValuesRestartingK(
                 writeValues(values, 0, sourceValues,
                     instances[1].geometry.attributes[name].componentDatatype),
                 0, instances, i + 1, name)

\* Lines 692-699: the values of attribute name of instances i, i + 1, ...
\* written to values from position k on.
RECURSIVE combineValues(_, _, _, _, _)
combineValues(values, k, instances, i, name) ==
    IF i > Len(instances) THEN values
    ELSE LET sourceValues == instances[i].geometry.attributes[name].values
         IN  combineValues(
                 writeValues(values, k, sourceValues,
                     instances[1].geometry.attributes[name].componentDatatype),
                 k + Len(sourceValues), instances, i + 1, name)

\* Lines 687-701.
combineAttributes(instances) ==
    LET attributes == findAttributesInAllGeometries(instances)
    IN  [name \in DOMAIN attributes |->
            [attributes[name] EXCEPT
                !.values = combineValues(@, 0, instances, 1, name)]]

\* Lines 713-717: numberOfIndices[primitiveType], over all the instances.
RECURSIVE numberOfIndices(_, _)
numberOfIndices(instances, i) ==
    IF i > Len(instances) THEN 0
    ELSE Len(instances[i].geometry.indexList) + numberOfIndices(instances, i + 1)

\* Lines 728-732 with a Uint16Array up to and including 60 * 1024 indices.
indexListTypeForUpTo(num) ==
    IF num <= sixtyK THEN "Uint16Array" ELSE "Uint32Array"

\* Lines 728-732: the array allocated for num indices.
indexListTypeFor(num) ==
    IF num < sixtyK THEN "Uint16Array" ELSE "Uint32Array"

\* Lines 758-764: the vertex count of the first attribute of attrs, if any.
firstAttributeVertices(attrs) ==
    IF DOMAIN attrs = {} THEN 0
    ELSE LET name == IF "position" \in DOMAIN attrs THEN "position"
                     ELSE CHOOSE a \in DOMAIN attrs : TRUE
         IN  Len(attrs[name].values) \div attrs[name].componentsPerAttribute

\* Lines 746-765: the index lists of instances i, i + 1, ... written to
\* destValues from position n on, each index raised by offset.
RECURSIVE combineIndices(_, _, _, _, _, _)
combineIndices(destValues, n, offset, instances, i, indexListType) ==
    IF i > Len(instances) THEN destValues
    ELSE LET sourceValues == instances[i].geometry.indexList
         IN  combineIndices(
                 [q \in 1..Len(destValues) |->
                     IF q > n /\ q <= n + Len(sourceValues)
                     THEN TypedIndex(indexListType, offset + sourceValues[q - n])
                     ELSE destValues[q]],
                 n + Len(sourceValues),
                 offset + firstAttributeVertices(instances[i].geometry.attributes),
                 instances, i + 1, indexListType)

\* Lines 768-783 passing over an instance that has no bounding sphere.
RECURSIVE combineBoundingSpheresSkippingUndefined(_, _, _)
combineBoundingSpheresSkippingUndefined(boundingSphere, instances, i) ==
    IF i > Len(instances) THEN boundingSphere
    ELSE LET bs == instances[i].geometry.boundingSphere
         IN  combineBoundingSpheresSkippingUndefined(
                 IF bs = undefined THEN boundingSphere
                 ELSE IF boundingSphere = undefined THEN bs
                 ELSE BoundingSphereUnion(boundingSphere, bs),
                 instances, i + 1)

\* Lines 768-783.
RECURSIVE combineBoundingSpheres(_, _, _)
combineBoundingSpheres(boundingSphere, instances, i) ==
    IF i > Len(instances) THEN boundingSphere
    ELSE LET bs == instances[i].geometry.boundingSphere
         IN  IF bs = undefined THEN undefined
             ELSE combineBoundingSpheres(
                      IF boundingSphere = undefined THEN bs
                      ELSE BoundingSphereUnion(boundingSphere, bs),
                      instances, i + 1)

\* Lines 665-791, for two instances or more: [threw, geometry, aliased].
\* indices.length at line 716 is a TypeError for an instance whose geometry
\* has no indexList.
combineSeveral(instances) ==
    IF \E i \in 2..Len(instances) :
           ~Matrix4equals(instances[i].modelMatrix, instances[1].modelMatrix)
    THEN [threw |-> TRUE, geometry |-> NoGeometry, aliased |-> <<>>]
    ELSE IF \E i \in 1..Len(instances) : ~instances[i].geometry.indexed
    THEN [threw |-> TRUE, geometry |-> NoGeometry, aliased |-> <<>>]
    ELSE LET num == numberOfIndices(instances, 1)
             indexListType == indexListTypeFor(num)
         IN  [threw |-> FALSE,
              geometry |->
                 [attributes |-> combineAttributes(instances),
                  indexed |-> TRUE,
                  indexList |-> combineIndices([q \in 1..num |-> 0], 0, 0,
                                               instances, 1, indexListType),
                  indexListType |-> indexListType,
                  primitiveType |-> instances[1].geometry.primitiveType,
                  boundingSphere |-> combineBoundingSpheres(undefined, instances, 1)],
              aliased |-> <<FALSE>>]

\* combine with no return at line 662 for a single instance.
combineWithoutShortcut(instances) ==
    IF Len(instances) < 1
    THEN [threw |-> TRUE, geometry |-> NoGeometry, aliased |-> <<>>]
    ELSE combineSeveral(instances)

\* combine: [threw, geometry, aliased].  A single instance's geometry is
\* returned itself; anything else returned is a new Geometry.
combine(instances) ==
    IF Len(instances) < 1
    THEN [threw |-> TRUE, geometry |-> NoGeometry, aliased |-> <<>>]
    ELSE IF Len(instances) = 1
    THEN [threw |-> FALSE, geometry |-> instances[1].geometry,
          aliased |-> <<TRUE>>]
    ELSE combineSeveral(instances)

(***************************************************************************)
(* The combine specification: one call of combine on a list of up to       *)
(* MaxInstances instances.  The instances are a usual one (two vertices,   *)
(* position and st, index list 0 1, TRIANGLES, a bounding sphere, the      *)
(* identity as modelMatrix) and those that differ from it in one respect:  *)
(* the vertex count and the index list, the attributes, the primitive      *)
(* type, the modelMatrix, having no index list or no bounding sphere.      *)
(***************************************************************************)
MaxInstances == 2

CombineMaxLen == 2

\* The attributes position and st of n vertices, st as described.
CombineAttributes(n, componentDatatype, componentsPerAttribute, normalize) ==
    [a \in {"position", "st"} |->
        IF a = "position" THEN MakeAttribute("position", n)
        ELSE [componentDatatype |-> componentDatatype,
              componentsPerAttribute |-> componentsPerAttribute,
              normalize |-> normalize,
              values |-> [j \in 1..(n * componentsPerAttribute) |->
                            AttributeBase("st")
                            + 10 * ((j - 1) \div componentsPerAttribute)
                            + ((j - 1) % componentsPerAttribute)]]]

CombineGeometry(attributes, indexed, indexList, primitiveType, boundingSphere) ==
    [attributes |-> attributes,
     indexed |-> indexed,
     indexList |-> IF indexed THEN indexList ELSE <<>>,
     indexListType |-> "Array",
     primitiveType |-> primitiveType,
     boundingSphere |-> boundingSphere]

UsualGeometry ==
    CombineGeometry(MakeAttributes({"position", "st"}, 2), TRUE, <<0, 1>>,
                    "TRIANGLES", 2)

\* The usual geometry with other vertex counts and index lists.
IndexVariants ==
    {CombineGeometry(MakeAttributes({"position", "st"}, n), TRUE, indexList,
                     "TRIANGLES", n) :
        n \in {2, uint16Range},
        indexList \in SeqsUpTo({0, 1}, CombineMaxLen)}

\* The usual geometry with other attributes: no st, or an st of another
\* datatype, component count or normalize flag.
AttributeVariants ==
    {CombineGeometry(attributes, TRUE, <<0, 1>>, "TRIANGLES", 2) :
        attributes \in
            {MakeAttributes({"position"}, 2),
             CombineAttributes(2, "UNSIGNED_BYTE", 2, FALSE),
             CombineAttributes(2, "FLOAT", 3, FALSE),
             CombineAttributes(2, "FLOAT", 2, TRUE)}}

OtherVariants ==
    {CombineGeometry(MakeAttributes({"position", "st"}, 2), FALSE, <<>>,
                     "TRIANGLES", 2),
     CombineGeometry(MakeAttributes({"position", "st"}, 2), TRUE, <<0, 1>>,
                     "LINES", 2),
     CombineGeometry(MakeAttributes({"position", "st"}, 2), TRUE, <<0, 1>>,
                     "TRIANGLES", undefined)}

CombineInstances ==
    {[geometry |-> g, modelMatrix |-> "IDENTITY"] :
        g \in IndexVariants \cup AttributeVariants \cup OtherVariants}
    \cup {[geometry |-> UsualGeometry, modelMatrix |-> "TRANSLATION"]}

InitCombine ==
    /\ instanceList \in SeqsUpTo(CombineInstances, MaxInstances)
    /\ geometry = NoGeometry
    /\ before = NoGeometry
    /\ Constructed
    /\ lastOp = "none"
    /\ arg = undefined
    /\ threw = FALSE
    /\ geometries = <<>>
    /\ aliased = <<>>
    /\ combined = NoGeometry

\* One call of combine; it writes to none of the instances.
Combine ==
    /\ lastOp = "none"
    /\ LET r == combine(instanceList)
       IN  /\ threw' = r.threw
           /\ combined' = r.geometry
           /\ aliased' = r.aliased
    /\ lastOp' = "combine"
    /\ UNCHANGED polylinesVars
    /\ UNCHANGED <<geometry, before, arg, geometries, instanceList>>

NextCombine == Combine

SpecCombine == InitCombine /\ [][NextCombine]_vars

(***************************************************************************)
(* Claims about combine.                                                   *)
(***************************************************************************)
CombineCalled == lastOp = "combine"

\* combine was given two instances or more and returned a geometry.
CombinedSeveral == CombineCalled /\ Len(instanceList) >= 2 /\ ~threw

\* Some instance's modelMatrix differs from the first's.
TransformsDiffer ==
    \E i \in 2..Len(instanceList) :
        instanceList[i].modelMatrix # instanceList[1].modelMatrix

\* C15: combine throws exactly when the instance list is empty, or holds two
\* instances or more of which one has a modelMatrix other than the first's;
\* in every other case it returns a geometry.
C15_ThrowsExactlyOnEmptyOrTransforms ==
    CombineCalled
        => (threw <=> (Len(instanceList) < 1
                         \/ (Len(instanceList) >= 2 /\ TransformsDiffer)))

\* C16: combine called with exactly one instance returns that instance's
\* geometry, the very object, with no error and as it was given.
C16_SingleInstanceReturned ==
    CombineCalled /\ Len(instanceList) = 1
        => /\ ~threw
           /\ combined = instanceList[1].geometry
           /\ aliased = <<TRUE>>

\* A single instance whose geometry has four vertices came back as itself.
C16_Witness ==
    /\ CombineCalled
    /\ Len(instanceList) = 1
    /\ computeNumberOfVertices(instanceList[1].geometry) = uint16Range
    /\ instanceList[1].geometry.indexList = <<1, 0>>
    /\ combined = instanceList[1].geometry
    /\ aliased = <<TRUE>>

\* componentDatatype, componentsPerAttribute and normalize of an attribute.
Description(attribute) ==
    <<attribute.componentDatatype, attribute.componentsPerAttribute,
      attribute.normalize>>

\* The names found in every instance's geometry, with one description in all.
SharedNames ==
    {a \in UNION {DOMAIN instanceList[i].geometry.attributes :
                     i \in 1..Len(instanceList)} :
        /\ \A i \in 1..Len(instanceList) :
             a \in DOMAIN instanceList[i].geometry.attributes
        /\ \A i, j \in 1..Len(instanceList) :
             Description(instanceList[i].geometry.attributes[a])
               = Description(instanceList[j].geometry.attributes[a])}

\* C17: for two instances or more, the attributes of the geometry combine
\* returns are exactly the names found in every instance with the same
\* componentDatatype, componentsPerAttribute and normalize in all of them
\* (any other name is dropped, with no error), and each keeps that
\* componentDatatype, componentsPerAttribute and normalize.
C17_SharedAttributesSurvive ==
    CombinedSeveral
        => /\ DOMAIN combined.attributes = SharedNames
           /\ \A a \in DOMAIN combined.attributes :
                \A i \in 1..Len(instanceList) :
                    Description(combined.attributes[a])
                      = Description(instanceList[i].geometry.attributes[a])

\* st, normalized in the second instance only, was dropped and position kept.
C17_Witness ==
    /\ CombinedSeveral
    /\ Len(instanceList) = 2
    /\ DOMAIN instanceList[1].geometry.attributes = {"position", "st"}
    /\ DOMAIN instanceList[2].geometry.attributes = {"position", "st"}
    /\ ~instanceList[1].geometry.attributes["st"].normalize
    /\ instanceList[2].geometry.attributes["st"].normalize
    /\ DOMAIN combined.attributes = {"position"}
    /\ Description(combined.attributes["position"]) = <<"FLOAT", 3, FALSE>>

\* The values of attribute a of instances i, i + 1, ..., one after the other.
RECURSIVE ValuesInOrder(_, _)
ValuesInOrder(a, i) ==
    IF i > Len(instanceList) THEN <<>>
    ELSE instanceList[i].geometry.attributes[a].values \o ValuesInOrder(a, i + 1)

\* The sum of the lengths of the values of attribute a of instances i, ...
RECURSIVE ValuesLength(_, _)
ValuesLength(a, i) ==
    IF i > Len(instanceList) THEN 0
    ELSE Len(instanceList[i].geometry.attributes[a].values)
            + ValuesLength(a, i + 1)

\* C18: every attribute of the geometry combine returns has as many values
\* as the instances' attributes of that name have together, and they are the
\* instances' values one instance after the other, in input order.
C18_ValuesConcatenated ==
    CombinedSeveral
        => \A a \in DOMAIN combined.attributes :
            /\ Len(combined.attributes[a].values) = ValuesLength(a, 1)
            /\ combined.attributes[a].values = ValuesInOrder(a, 1)

\* Two and then four vertices: (2 + 4) * 3 position values, those of the
\* first instance first.
C18_Witness ==
    /\ CombinedSeveral
    /\ Len(instanceList) = 2
    /\ computeNumberOfVertices(instanceList[1].geometry) = 2
    /\ computeNumberOfVertices(instanceList[2].geometry) = uint16Range
    /\ DOMAIN combined.attributes = {"position", "st"}
    /\ Len(combined.attributes["position"].values) = (2 + uint16Range) * 3
    /\ combined.attributes["position"].values
         = instanceList[1].geometry.attributes["position"].values
             \o instanceList[2].geometry.attributes["position"].values
    /\ Len(combined.attributes["st"].values) = (2 + uint16Range) * 2

\* The vertices of the instances before instance i.
RECURSIVE VerticesBefore(_)
VerticesBefore(i) ==
    IF i <= 1 THEN 0
    ELSE VerticesBefore(i - 1)
            + computeNumberOfVertices(instanceList[i - 1].geometry)

\* The positions of the instances' index lists, instance after instance:
\* [of, at] is position at of the index list of instance of.
RECURSIVE InstancePositions(_)
InstancePositions(i) ==
    IF i > Len(instanceList) THEN <<>>
    ELSE [q \in 1..Len(instanceList[i].geometry.indexList) |->
             [of |-> i, at |-> q]]
            \o InstancePositions(i + 1)

\* C19: the index list of the geometry combine returns is the instances'
\* index lists in input order, each index x of instance i stored as x plus
\* the vertex counts of the instances before i, so that it selects in every
\* combined attribute the tuple x selects in instance i's attribute.
C19_IndicesOffsetByVertexCounts ==
    CombinedSeveral
        => LET flat == InstancePositions(1)
           IN  /\ Len(combined.indexList) = Len(flat)
               /\ \A q \in 1..Len(flat) :
                    LET g == instanceList[flat[q].of].geometry
                        x == g.indexList[flat[q].at]
                    IN  /\ combined.indexList[q] = x + VerticesBefore(flat[q].of)
                        /\ \A a \in DOMAIN combined.attributes :
                             VertexTuple(combined, a, combined.indexList[q])
                               = VertexTuple(g, a, x)

\* The indices of all the instances together.
RECURSIVE TotalIndices(_)
TotalIndices(i) ==
    IF i > Len(instanceList) THEN 0
    ELSE Len(instanceList[i].geometry.indexList) + TotalIndices(i + 1)

RECURSIVE IndicesOfType(_, _)
IndicesOfType(primitiveType, i) ==
    IF i > Len(instanceList) THEN 0
    ELSE (IF instanceList[i].geometry.primitiveType = primitiveType
          THEN Len(instanceList[i].geometry.indexList) ELSE 0)
            + IndicesOfType(primitiveType, i + 1)

\* C21: the index list of the geometry combine returns, which has the
\* primitive type of that geometry, holds the indices of the instances of
\* that primitive type only: indices of instances of another primitive type
\* are not in it.
C21_IndexListOfOnePrimitiveType ==
    CombinedSeveral
        => Len(combined.indexList) = IndicesOfType(combined.primitiveType, 1)

\* The union of the bounding spheres of instances i, i + 1, ..., all defined.
RECURSIVE UnionFrom(_)
UnionFrom(i) ==
    IF i = Len(instanceList) THEN instanceList[i].geometry.boundingSphere
    ELSE BoundingSphereUnion(instanceList[i].geometry.boundingSphere,
                             UnionFrom(i + 1))

\* C22: the geometry combine returns for two instances or more has a
\* bounding sphere exactly when every instance's geometry has one, and then
\* it is the union of them all; it has none as soon as one instance, at
\* whatever place in the list, has none.
C22_BoundingSphereIffAllHaveOne ==
    CombinedSeveral
        => IF \A i \in 1..Len(instanceList) :
                  instanceList[i].geometry.boundingSphere # undefined
           THEN /\ combined.boundingSphere # undefined
                /\ combined.boundingSphere = UnionFrom(1)
           ELSE combined.boundingSphere = undefined

\* The last instance alone had no bounding sphere: the result has none.
C22_Witness ==
    /\ CombinedSeveral
    /\ instanceList[1].geometry.boundingSphere # undefined
    /\ instanceList[Len(instanceList)].geometry.boundingSphere = undefined
    /\ combined.boundingSphere = undefined

\* C27: the array combine chooses for the index list holds every index as
\* the vertex offset of its instance plus the source index, none reduced
\* modulo the number of values of an unsigned 16-bit integer, also where the
\* instances have fewer than sixtyK indices and more than uint16Range
\* vertices together.
C27_IndexWidthSafe ==
    CombinedSeveral
        => LET flat == InstancePositions(1)
           IN  \A q \in 1..Len(flat) :
                 LET stored == instanceList[flat[q].of].geometry.indexList[flat[q].at]
                                 + VerticesBefore(flat[q].of)
                 IN  /\ combined.indexListType = "Uint16Array"
                         => stored < uint16Range
                     /\ combined.indexList[q] = stored

(***************************************************************************)
(* Cartesian3.  A vector is <<x, y, z>>.  The vectors of the inputs have   *)
(* integer components; a normalized vector has the components x / sqrt(s), *)
(* y / sqrt(s), z / sqrt(s) for integers x, y, z without a common divisor  *)
(* and s = x*x + y*y + z*z, and each of its components is written          *)
(* <<x, s>>.  Normalizing the zero vector gives NaN, written <<0, 0>>.     *)
(***************************************************************************)
Abs(x) == IF x < 0 THEN -x ELSE x

RECURSIVE Gcd(_, _)
Gcd(a, b) == IF b = 0 THEN a ELSE Gcd(b, a % b)

ZERO == <<0, 0, 0>>

subtract(left, right) ==
    <<left[1] - right[1], left[2] - right[2], left[3] - right[3]>>

add(left, right) ==
    <<left[1] + right[1], left[2] + right[2], left[3] + right[3]>>

cross(left, right) ==
    <<left[2] * right[3] - left[3] * right[2],
      left[3] * right[1] - left[1] * right[3],
      left[1] * right[2] - left[2] * right[1]>>

dot(left, right) ==
    left[1] * right[1] + left[2] * right[2] + left[3] * right[3]

multiplyByScalar(v, scalar) == <<v[1] * scalar, v[2] * scalar, v[3] * scalar>>

NaN == <<0, 0>>

\* The three components of v / |v|.
normalize(v) ==
    IF v = ZERO THEN <<NaN, NaN, NaN>>
    ELSE LET d == Gcd(Gcd(Abs(v[1]), Abs(v[2])), Abs(v[3]))
             u == <<v[1] \div d, v[2] \div d, v[3] \div d>>
             magnitudeSquared == dot(u, u)
         IN  <<<<u[1], magnitudeSquared>>, <<u[2], magnitudeSquared>>,
               <<u[3], magnitudeSquared>>>>

\* Cartesian3.fromArray(values, offset), for an array of integers.
fromArray(values, offset) ==
    <<values[offset + 1], values[offset + 2], values[offset + 3]>>

(***************************************************************************)
(* computeNormal                                                           *)
(***************************************************************************)
\* normalsPerVertex[v].count after lines 852-878: the places of the index
\* list that hold v.
countOf(indices, v) == Cardinality({p \in 1..Len(indices) : indices[p] = v})

\* normalsPerVertex[v].indexOffset after lines 880-884.
RECURSIVE indexOffsetOf(_, _)
indexOffsetOf(indices, v) ==
    IF v = 0 THEN 0
    ELSE indexOffsetOf(indices, v - 1) + countOf(indices, v - 1)

\* normalsPerTriangle after lines 852-878.
normalsPerTriangle(vertices, indices) ==
    [t \in 1..(Len(indices) \div 3) |->
        LET v0 == fromArray(vertices, indices[3 * t - 2] * 3)
            v1 == fromArray(vertices, indices[3 * t - 1] * 3)
            v2 == fromArray(vertices, indices[3 * t] * 3)
        IN  cross(subtract(v1, v0), subtract(v2, v0))]

\* Lines 888-905 with j never incremented.
RECURSIVE fillNormalIndicesNoIncrement(_, _, _, _)
fillNormalIndicesNoIncrement(indices, normalIndices, currentCount, p) ==
    IF p >= Len(indices) THEN normalIndices
    ELSE LET v == indices[p + 1]
             index == indexOffsetOf(indices, v) + currentCount[v + 1]
         IN  fillNormalIndicesNoIncrement(indices,
                 ArraySet(normalIndices, index, 0),
                 [currentCount EXCEPT ![v + 1] = @ + 1], p + 1)

\* Lines 888-905: normalIndices, the triangles of each vertex one vertex
\* after the other; p runs over the places of the index list, j = p / 3.
RECURSIVE fillNormalIndices(_, _, _, _)
fillNormalIndices(indices, normalIndices, currentCount, p) ==
    IF p >= Len(indices) THEN normalIndices
    ELSE LET v == indices[p + 1]
             index == indexOffsetOf(indices, v) + currentCount[v + 1]
         IN  fillNormalIndices(indices,
                 ArraySet(normalIndices, index, p \div 3),
                 [currentCount EXCEPT ![v + 1] = @ + 1], p + 1)

\* Lines 919-922: the sum of the normals of the triangles of vertex i.
RECURSIVE sumOfNormals(_, _, _, _, _)
sumOfNormals(perTriangle, normalIndices, indexOffset, count, j) ==
    IF j >= count THEN ZERO
    ELSE add(perTriangle[normalIndices[indexOffset + j + 1] + 1],
             sumOfNormals(perTriangle, normalIndices, indexOffset, count, j + 1))

\* Lines 915-932: the three values written for vertex i.
vertexNormal(vertices, indices, normalIndices, i) ==
    IF countOf(indices, i) > 0
    THEN normalize(sumOfNormals(normalsPerTriangle(vertices, indices),
                                normalIndices, indexOffsetOf(indices, i),
                                countOf(indices, i), 0))
    ELSE <<<<0, 1>>, <<0, 1>>, <<1, 1>>>>

\* The attributes with attribute name set to (or added as) attribute.
WithAttribute(attributes, name, attribute) ==
    [a \in DOMAIN attributes \cup {name} |->
        IF a = name THEN attribute ELSE attributes[a]]

\* computeNormal: [threw, geometry].  An index that is no vertex makes
\* normalsPerVertex[i0].count++ (lines 870-872) a TypeError, before anything
\* of the geometry is written.
computeNormal(g) ==
    IF "position" \notin DOMAIN g.attributes
    THEN [threw |-> TRUE, geometry |-> g]
    ELSE IF g.attributes["position"].componentsPerAttribute # 3
            \/ Len(g.attributes["position"].values) % 3 # 0
    THEN [threw |-> TRUE, geometry |-> g]
    ELSE IF ~g.indexed
    THEN [threw |-> FALSE, geometry |-> g]
    ELSE IF g.primitiveType # "TRIANGLES" \/ Len(g.indexList) < 2
            \/ Len(g.indexList) % 3 # 0
    THEN [threw |-> FALSE, geometry |-> g]
    ELSE LET vertices == g.attributes["position"].values
             indices == g.indexList
             numVertices == Len(vertices) \div 3
         IN  IF \E p \in 1..Len(indices) :
                    indices[p] < 0 \/ indices[p] >= numVertices
             THEN [threw |-> TRUE, geometry |-> g]
             ELSE LET normalIndices ==
                          fillNormalIndices(indices,
                              [q \in 1..Len(indices) |-> undefined],
                              [v \in 1..numVertices |-> 0], 0)
                      normalValues ==
                          IF "normal" \in DOMAIN g.attributes
                          THEN g.attributes["normal"].values
                          ELSE <<>>
                      written ==
                          [q \in 1..(IF Len(normalValues) > numVertices * 3
                                     THEN Len(normalValues)
                                     ELSE numVertices * 3) |->
                              IF q <= numVertices * 3
                              THEN vertexNormal(vertices, indices, normalIndices,
                                                (q - 1) \div 3)[((q - 1) % 3) + 1]
                              ELSE normalValues[q]]
                  IN  [threw |-> FALSE,
                       geometry |->
                          [g EXCEPT !.attributes =
                              WithAttribute(@, "normal",
                                  IF "normal" \in DOMAIN g.attributes
                                  THEN [g.attributes["normal"] EXCEPT
                                           !.values = written]
                                  ELSE [componentDatatype |-> "FLOAT",
                                        componentsPerAttribute |-> 3,
                                        normalize |-> FALSE,
                                        values |-> written])]]

(***************************************************************************)
(* Geometries for computeNormal and computeTangentAndBinormal: vertex v    *)
(* is at Point(v) with texture coordinates TexturePoint(v); a normal given *)
(* with the geometry is the unit vector along x at every vertex.           *)
(***************************************************************************)
Point(v) ==
    CASE v = 0 -> <<0, 0, 0>>
      [] v = 1 -> <<1, 0, 0>>
      [] v = 2 -> <<0, 1, 0>>
      [] v = 3 -> <<0, 0, 1>>
      [] OTHER -> <<1, 1, v>>

TexturePoint(v) ==
    CASE v = 0 -> <<0, 0>>
      [] v = 1 -> <<1, 0>>
      [] v = 2 -> <<0, 1>>
      [] v = 3 -> <<1, 1>>
      [] OTHER -> <<v, 2>>

GivenNormal == <<<<1, 1>>, <<0, 1>>, <<0, 1>>>>

PointAttribute(name, n) ==
    [componentDatatype |-> "FLOAT",
     componentsPerAttribute |-> IF name = "st" THEN 2 ELSE 3,
     normalize |-> FALSE,
     values |->
        CASE name = "position" ->
                [j \in 1..(n * 3) |-> Point((j - 1) \div 3)[((j - 1) % 3) + 1]]
          [] name = "st" ->
                [j \in 1..(n * 2) |->
                    TexturePoint((j - 1) \div 2)[((j - 1) % 2) + 1]]
          [] OTHER ->
                [j \in 1..(n * 3) |-> GivenNormal[((j - 1) % 3) + 1]]]

PointGeometry(names, n, indexed, indexList, primitiveType) ==
    [attributes |-> [a \in names |-> PointAttribute(a, n)],
     indexed |-> indexed,
     indexList |-> IF indexed THEN indexList ELSE <<>>,
     primitiveType |-> primitiveType]

(***************************************************************************)
(* The normal specification: one call of computeNormal on a geometry of    *)
(* NormalMaxVertices vertices: with a position only, TRIANGLES and any     *)
(* list of whole triangles up to NormalMaxLen indices; with a normal or    *)
(* texture coordinates too, or of another primitive type, or with no       *)
(* position, any list of up to three indices.                              *)
(***************************************************************************)
NormalMaxVertices == 4

NormalMaxLen == 6

WholeTriangles(S, n) == UNION {[1..(3 * k) -> S] : k \in 0..(n \div 3)}

InitNormal ==
    /\ \E names \in {{"position"}, {"position", "normal"}, {"position", "st"},
                     {"st"}},
          indexed \in BOOLEAN, primitiveType \in {"TRIANGLES", "LINES"} :
        \E indexList \in
              IF ~indexed THEN {<<>>}
              ELSE IF names = {"position"} /\ primitiveType = "TRIANGLES"
              THEN WholeTriangles(0..(NormalMaxVertices - 1), NormalMaxLen)
                     \cup SeqsUpTo(0..(NormalMaxVertices - 1), 2)
              ELSE SeqsUpTo(0..(NormalMaxVertices - 1), 3) :
            geometry = PointGeometry(names, NormalMaxVertices, indexed,
                                     indexList, primitiveType)
    /\ before = geometry
    /\ Constructed
    /\ lastOp = "none"
    /\ arg = undefined
    /\ threw = FALSE
    /\ geometries = <<>>
    /\ aliased = <<>>
    /\ instanceList = <<>>
    /\ combined = NoGeometry

ComputeNormal ==
    /\ lastOp = "none"
    /\ LET r == computeNormal(geometry)
       IN  geometry' = r.geometry /\ threw' = r.threw
    /\ before' = geometry
    /\ lastOp' = "computeNormal"
    /\ arg' = undefined
    /\ UNCHANGED polylinesVars
    /\ UNCHANGED <<geometries, aliased, instanceList, combined>>

NextNormal == ComputeNormal

SpecNormal == InitNormal /\ [][NextNormal]_vars

(***************************************************************************)
(* Claims about computeNormal.                                             *)
(***************************************************************************)
\* computeNormal is applicable to g: TRIANGLES, with a position and an
\* index list of whole triangles, at least one.
NormalApplicable(g) ==
    /\ "position" \in DOMAIN g.attributes
    /\ g.attributes["position"].componentsPerAttribute = 3
    /\ g.indexed
    /\ g.primitiveType = "TRIANGLES"
    /\ Len(g.indexList) >= 2
    /\ Len(g.indexList) % 3 = 0

\* The triangles of g that have vertex v as a corner.
TrianglesAt(g, v) ==
    {t \in 1..(Len(g.indexList) \div 3) :
        v \in {g.indexList[3 * t - 2], g.indexList[3 * t - 1], g.indexList[3 * t]}}

\* (v1 - v0) x (v2 - v0) of triangle t of g.
FaceNormal(g, t) ==
    LET v0 == Point(g.indexList[3 * t - 2])
        v1 == Point(g.indexList[3 * t - 1])
        v2 == Point(g.indexList[3 * t])
    IN  cross(subtract(v1, v0), subtract(v2, v0))

\* The sum of the face normals of the triangles of the set T.
RECURSIVE FaceNormalSum(_, _)
FaceNormalSum(g, T) ==
    IF T = {} THEN ZERO
    ELSE LET t == CHOOSE t \in T : TRUE
         IN  add(FaceNormal(g, t), FaceNormalSum(g, T \ {t}))

\* C24: after computeNormal on a TRIANGLES geometry it applies to, the normal
\* attribute has 3 components for every vertex: (0, 0, 1) for a vertex of no
\* triangle, and for any other vertex the normalized sum of the cross
\* products (v1 - v0) x (v2 - v0) of the triangles it is a corner of.
C24_NormalsAreNormalizedSums ==
    lastOp = "computeNormal" /\ ~threw /\ NormalApplicable(before)
    => /\ "normal" \in DOMAIN geometry.attributes
       /\ geometry.attributes["normal"].componentsPerAttribute = 3
       /\ Len(geometry.attributes["normal"].values)
            = 3 * computeNumberOfVertices(before)
       /\ \A v \in 0..(computeNumberOfVertices(before) - 1) :
            VertexTuple(geometry, "normal", v)
              = IF TrianglesAt(before, v) = {}
                THEN <<<<0, 1>>, <<0, 1>>, <<1, 1>>>>
                ELSE normalize(FaceNormalSum(before, TrianglesAt(before, v)))

\* The counter-clockwise triangle (0,0,0), (1,0,0), (0,1,0): (0, 0, 1) at its
\* three vertices, and at the vertex of no triangle.
C24_Witness ==
    /\ lastOp = "computeNormal" /\ ~threw
    /\ before.indexList = <<0, 1, 2>>
    /\ before.primitiveType = "TRIANGLES"
    /\ DOMAIN before.attributes = {"position"}
    /\ VertexTuple(before, "position", 1) = <<1, 0, 0>>
    /\ VertexTuple(before, "position", 2) = <<0, 1, 0>>
    /\ \A v \in 0..3 :
         VertexTuple(geometry, "normal", v) = <<<<0, 1>>, <<0, 1>>, <<1, 1>>>>

(***************************************************************************)
(* computeTangentAndBinormal.  tan1 of a vertex is a sum of vectors        *)
(* N / det, one for each place of the index list that holds the vertex,    *)
(* N and det being integers; the sum is kept as an integer vector of the   *)
(* same direction (every term multiplied by the product of the |det|).     *)
(* Where some det is 0, or an index of the triangle is no vertex, the      *)
(* term is infinite or NaN and what is normalized from it is NaN.          *)
(***************************************************************************)
Sign(x) == IF x < 0 THEN -1 ELSE 1

\* The triangle that place p (from 0) of the index list belongs to.
cornersAt(indices, p) ==
    <<indices[3 * (p \div 3) + 1], indices[3 * (p \div 3) + 2],
      indices[3 * (p \div 3) + 3]>>

\* Line 1032 without the division: (st[i12] - wx) * t2 - (st[i22] - wx) * t1.
determinant(st, corners) ==
    LET wx == st[corners[1] * 2 + 1]
        wy == st[corners[1] * 2 + 2]
        t1 == st[corners[2] * 2 + 2] - wy
        t2 == st[corners[3] * 2 + 2] - wy
    IN  (st[corners[2] * 2 + 1] - wx) * t2 - (st[corners[3] * 2 + 1] - wx) * t1

\* Lines 1033-1035 without the factor r: t2 * (v1 - u) - t1 * (v2 - u).
sdirNumerator(vertices, st, corners) ==
    LET wy == st[corners[1] * 2 + 2]
        t1 == st[corners[2] * 2 + 2] - wy
        t2 == st[corners[3] * 2 + 2] - wy
        u == fromArray(vertices, corners[1] * 3)
    IN  subtract(multiplyByScalar(subtract(fromArray(vertices, corners[2] * 3), u), t2),
                 multiplyByScalar(subtract(fromArray(vertices, corners[3] * 3), u), t1))

\* The places (from 0) of the index list that hold vertex i.
placesOf(indices, i) == {p \in 0..(Len(indices) - 1) : indices[p + 1] = i}

\* The product of |det| over the places of the set P.
RECURSIVE determinantProduct(_, _, _)
determinantProduct(st, indices, P) ==
    IF P = {} THEN 1
    ELSE LET p == CHOOSE p \in P : TRUE
         IN  Abs(determinant(st, cornersAt(indices, p)))
                * determinantProduct(st, indices, P \ {p})

\* tan1 of a vertex (lines 1037-1047) times product: the sum over the places
\* of the set P of N / det * product.
RECURSIVE tan1Times(_, _, _, _, _)
tan1Times(vertices, st, indices, P, product) ==
    IF P = {} THEN ZERO
    ELSE LET p == CHOOSE p \in P : TRUE
             corners == cornersAt(indices, p)
             det == determinant(st, corners)
         IN  add(multiplyByScalar(sdirNumerator(vertices, st, corners),
                                  Sign(det) * (product \div Abs(det))),
                 tan1Times(vertices, st, indices, P \ {p}, product))

\* tan1 of vertex i is infinite or NaN.
tan1NotFinite(st, indices, numVertices, i) ==
    \E p \in placesOf(indices, i) :
        \/ \E c \in 1..3 : cornersAt(indices, p)[c] < 0
                            \/ cornersAt(indices, p)[c] >= numVertices
        \/ determinant(st, cornersAt(indices, p)) = 0

\* Lines 1056-1060: the direction of t - n * (n . t), n being the normal of
\* vertex i (direction nDirection, squared length of the direction
\* magnitudeSquared) and t its tan1.
tangentDirection(vertices, st, indices, i, nDirection, magnitudeSquared) ==
    LET P == placesOf(indices, i)
        t == tan1Times(vertices, st, indices, P,
                       determinantProduct(st, indices, P))
    IN  subtract(multiplyByScalar(t, magnitudeSquared),
                 multiplyByScalar(nDirection, dot(nDirection, t)))

\* Lines 1056-1067 for vertex i: [tangent, binormal], three values each.
tangentAndBinormal(vertices, normals, st, indices, i) ==
    LET numVertices == Len(vertices) \div 3
        nDirection == <<normals[3 * i + 1][1], normals[3 * i + 2][1],
                        normals[3 * i + 3][1]>>
        magnitudeSquared == normals[3 * i + 1][2]
    IN  IF magnitudeSquared = 0 \/ tan1NotFinite(st, indices, numVertices, i)
        THEN [tangent |-> <<NaN, NaN, NaN>>, binormal |-> <<NaN, NaN, NaN>>]
        ELSE LET t == tangentDirection(vertices, st, indices, i, nDirection,
                                       magnitudeSquared)
             IN  [tangent |-> normalize(t),
                  binormal |-> normalize(cross(nDirection, t))]

\* attribute name with the given values: a new FLOAT attribute of three
\* components if there is none (lines 1069-1086).
replacedAttribute(attributes, name, values) ==
    WithAttribute(attributes, name,
        IF name \in DOMAIN attributes
        THEN [attributes[name] EXCEPT !.values = values]
        ELSE [componentDatatype |-> "FLOAT", componentsPerAttribute |-> 3,
              normalize |-> FALSE, values |-> values])

\* An attribute the function requires is missing or of another shape
\* (lines 969-989).
requiredAttributeMissing(attributes, name, components) ==
    \/ name \notin DOMAIN attributes
    \/ attributes[name].componentsPerAttribute # components
    \/ Len(attributes[name].values) % components # 0

\* computeTangentAndBinormal: [threw, geometry].
computeTangentAndBinormal(g) ==
    IF \/ requiredAttributeMissing(g.attributes, "position", 3)
       \/ requiredAttributeMissing(g.attributes, "normal", 3)
       \/ requiredAttributeMissing(g.attributes, "st", 2)
    THEN [threw |-> TRUE, geometry |-> g]
    ELSE IF ~g.indexed
    THEN [threw |-> FALSE, geometry |-> g]
    ELSE IF g.primitiveType # "TRIANGLES" \/ Len(g.indexList) < 2
            \/ Len(g.indexList) % 3 # 0
    THEN [threw |-> FALSE, geometry |-> g]
    ELSE LET vertices == g.attributes["position"].values
             numVertices == Len(vertices) \div 3
             computed ==
                 [i \in 0..(numVertices - 1) |->
                     tangentAndBinormal(vertices, g.attributes["normal"].values,
                                        g.attributes["st"].values, g.indexList, i)]
             tangentValues ==
                 [q \in 1..(numVertices * 3) |->
                     computed[(q - 1) \div 3].tangent[((q - 1) % 3) + 1]]
             binormalValues ==
                 [q \in 1..(numVertices * 3) |->
                     computed[(q - 1) \div 3].binormal[((q - 1) % 3) + 1]]
         IN  [threw |-> FALSE,
              geometry |->
                 [g EXCEPT !.attributes =
                     replacedAttribute(
                         replacedAttribute(@, "tangent", tangentValues),
                         "binormal", binormalValues)]]

(***************************************************************************)
(* encodeAttribute                                                         *)
(***************************************************************************)
\* A name argument left out of the call.
omitted == "(omitted)"

defaultValue(value, default) == IF value = omitted THEN default ELSE value

\* EncodedCartesian3.encode(value, result), for an integer: high is the
\* multiple of 65536 towards zero, low the rest.
encode(value) ==
    IF value >= 0
    THEN [high |-> (value \div 65536) * 65536,
          low |-> value - (value \div 65536) * 65536]
    ELSE [high |-> -(((-value) \div 65536) * 65536),
          low |-> value + ((-value) \div 65536) * 65536]

\* A delete that deletes nothing.
WithoutAttributeKept(attributes, name) == attributes

\* The attributes without attribute name (delete).
WithoutAttribute(attributes, name) ==
    [a \in DOMAIN attributes \ {name} |-> attributes[a]]

\* encodeAttribute: [threw, geometry].
encodeAttribute(g, attributeName0, attributeHighName0, attributeLowName0) ==
    LET attributeName == defaultValue(attributeName0, "position")
        attributeHighName == defaultValue(attributeHighName0, "positionHigh")
        attributeLowName == defaultValue(attributeLowName0, "positionLow")
    IN  IF attributeName \notin DOMAIN g.attributes
        THEN [threw |-> TRUE, geometry |-> g]
        ELSE IF g.attributes[attributeName].componentDatatype # "FLOAT"
        THEN [threw |-> TRUE, geometry |-> g]
        ELSE LET attribute == g.attributes[attributeName]
                 encoded == [i \in 1..Len(attribute.values) |->
                                encode(attribute.values[i])]
             IN  [threw |-> FALSE,
                  geometry |->
                    [g EXCEPT !.attributes =
                        WithoutAttribute(
                            WithAttribute(
                                WithAttribute(@, attributeHighName,
                                    [componentDatatype |-> attribute.componentDatatype,
                                     componentsPerAttribute |-> attribute.componentsPerAttribute,
                                     normalize |-> FALSE,
                                     values |-> [i \in 1..Len(encoded) |-> encoded[i].high]]),
                                attributeLowName,
                                [componentDatatype |-> attribute.componentDatatype,
                                 componentsPerAttribute |-> attribute.componentsPerAttribute,
                                 normalize |-> FALSE,
                                 values |-> [i \in 1..Len(encoded) |-> encoded[i].low]]),
                            attributeName)]]

(***************************************************************************)
(* The encoding specification: one call of encodeAttribute on a geometry   *)
(* of up to EncodeMaxVertices vertices that has a position, or a position  *)
(* and texture coordinates (FLOAT or UNSIGNED_BYTE), with every choice of  *)
(* the three names among those of the geometry, the default ones, a new    *)
(* one and none.                                                           *)
(***************************************************************************)
EncodeMaxVertices == 2

AttributeNames == {omitted, "position", "st", "positionHigh", "extra"}

InitEncode ==
    /\ \E n \in 1..EncodeMaxVertices :
        \E attributes \in {MakeAttributes({"position"}, n),
                           MakeAttributes({"position", "st"}, n),
                           MakeAttributes({"st"}, n),
                           CombineAttributes(n, "UNSIGNED_BYTE", 2, FALSE)} :
            geometry = [attributes |-> attributes, indexed |-> TRUE,
                        indexList |-> [i \in 1..n |-> i - 1],
                        primitiveType |-> "POINTS"]
    /\ before = geometry
    /\ Constructed
    /\ lastOp = "none"
    /\ arg = undefined
    /\ threw = FALSE
    /\ geometries = <<>>
    /\ aliased = <<>>
    /\ instanceList = <<>>
    /\ combined = NoGeometry

EncodeAttribute ==
    \E attributeName \in AttributeNames, attributeHighName \in AttributeNames,
       attributeLowName \in AttributeNames \cup {"positionLow"} :
        /\ lastOp = "none"
        /\ LET r == encodeAttribute(geometry, attributeName, attributeHighName,
                                    attributeLowName)
           IN  geometry' = r.geometry /\ threw' = r.threw
        /\ before' = geometry
        /\ lastOp' = "encodeAttribute"
        /\ arg' = <<attributeName, attributeHighName, attributeLowName>>
        /\ UNCHANGED polylinesVars
        /\ UNCHANGED <<geometries, aliased, instanceList, combined>>

NextEncode == EncodeAttribute

SpecEncode == InitEncode /\ [][NextEncode]_vars

(***************************************************************************)
(* Claims about encodeAttribute.                                           *)
(***************************************************************************)
EncodeCalled == lastOp = "encodeAttribute"

\* The names the call used.
EncodedName == defaultValue(arg[1], "position")
EncodedHighName == defaultValue(arg[2], "positionHigh")
EncodedLowName == defaultValue(arg[3], "positionLow")

\* The geometry had a FLOAT attribute under the name to encode.
Encodable ==
    /\ EncodedName \in DOMAIN before.attributes
    /\ before.attributes[EncodedName].componentDatatype = "FLOAT"

\* C26 as stated: for every choice of the three names, encodeAttribute on a geometry
\* with a FLOAT attribute under attributeName removes that attribute and
\* leaves one attribute under attributeHighName and one under
\* attributeLowName, each with the componentsPerAttribute and the number of
\* values of the original, every other attribute unchanged; where the
\* attribute is missing or not FLOAT it throws and the geometry is unchanged.
C26_EncodesUnderAnyNames ==
    EncodeCalled
    => IF Encodable
       THEN /\ ~threw
            /\ EncodedName \notin DOMAIN geometry.attributes
            /\ \A a \in {EncodedHighName, EncodedLowName} :
                 /\ a \in DOMAIN geometry.attributes
                 /\ geometry.attributes[a].componentsPerAttribute
                      = before.attributes[EncodedName].componentsPerAttribute
                 /\ Len(geometry.attributes[a].values)
                      = Len(before.attributes[EncodedName].values)
            /\ \A a \in DOMAIN before.attributes \ {EncodedName} :
                 /\ a \in DOMAIN geometry.attributes
                 /\ geometry.attributes[a] = before.attributes[a]
            /\ geometry.indexList = before.indexList
       ELSE threw /\ geometry = before

\* The three names differ and the high and the low name are no names of
\* attributes of the geometry.
FreshNames ==
    /\ EncodedHighName # EncodedLowName
    /\ EncodedHighName \notin DOMAIN before.attributes
    /\ EncodedLowName \notin DOMAIN before.attributes

\* C26: for every choice of three different names of which the high and the
\* low one name no attribute of the geometry, encodeAttribute on a geometry
\* with a FLOAT attribute under attributeName removes that attribute and
\* leaves one attribute under attributeHighName and one under
\* attributeLowName, each with the componentsPerAttribute and the number of
\* values of the original, every other attribute unchanged; for every choice
\* of names, where the attribute is missing or not FLOAT it throws and the
\* geometry is unchanged.
C26_EncodesUnderFreshNames ==
    EncodeCalled
    => IF Encodable
       THEN FreshNames
            => /\ ~threw
               /\ EncodedName \notin DOMAIN geometry.attributes
               /\ \A a \in {EncodedHighName, EncodedLowName} :
                    /\ a \in DOMAIN geometry.attributes
                    /\ geometry.attributes[a].componentsPerAttribute
                         = before.attributes[EncodedName].componentsPerAttribute
                    /\ Len(geometry.attributes[a].values)
                         = Len(before.attributes[EncodedName].values)
               /\ DOMAIN geometry.attributes
                    = (DOMAIN before.attributes \ {EncodedName})
                        \cup {EncodedHighName, EncodedLowName}
               /\ \A a \in DOMAIN before.attributes \ {EncodedName} :
                    geometry.attributes[a] = before.attributes[a]
               /\ geometry.indexList = before.indexList
       ELSE threw /\ geometry = before

\* st was encoded as extra and positionLow: st is gone, position is as it
\* was, and the two new attributes have the two components of st.
C26_Witness ==
    /\ EncodeCalled /\ ~threw
    /\ arg = <<"st", "extra", omitted>>
    /\ DOMAIN before.attributes = {"position", "st"}
    /\ DOMAIN geometry.attributes = {"position", "extra", "positionLow"}
    /\ geometry.attributes["position"] = before.attributes["position"]
    /\ geometry.attributes["extra"].componentsPerAttribute = 2
    /\ geometry.attributes["positionLow"].componentsPerAttribute = 2
    /\ Len(geometry.attributes["extra"].values) = Len(before.attributes["st"].values)
    /\ Len(geometry.attributes["positionLow"].values)
         = Len(before.attributes["st"].values)

(***************************************************************************)
(* The stages specification: one call of one of the eight pipeline         *)
(* functions.  The caller holds either a geometry of StageMaxVertices      *)
(* vertices (a position; a position, a normal and texture coordinates; or  *)
(* texture coordinates only; TRIANGLES, LINES or TRIANGLE_STRIP; no index  *)
(* list or one of up to StageMaxLen indices, also indices of no vertex),   *)
(* or a list of up to MaxInstances instances.                              *)
(***************************************************************************)
StageMaxVertices == 2

StageMaxLen == 3

StageGeometries ==
    {PointGeometry(names, StageMaxVertices, indexed, indexList, primitiveType) :
        names \in {{"position"}, {"position", "normal", "st"}, {"st"}},
        indexed \in BOOLEAN,
        indexList \in SeqsUpTo(0..StageMaxVertices, StageMaxLen),
        primitiveType \in {"TRIANGLES", "LINES", "TRIANGLE_STRIP"}}

StageInstances ==
    {[geometry |-> g, modelMatrix |-> "IDENTITY"] : g \in OtherVariants}
    \cup {[geometry |-> UsualGeometry, modelMatrix |-> matrix] :
            matrix \in {"IDENTITY", "TRANSLATION"}}

InitStages ==
    /\ \/ /\ geometry \in StageGeometries
          /\ instanceList = <<>>
       \/ /\ geometry = NoGeometry
          /\ instanceList \in SeqsUpTo(StageInstances, MaxInstances)
    /\ before = geometry
    /\ Constructed
    /\ lastOp = "none"
    /\ arg = undefined
    /\ threw = FALSE
    /\ geometries = <<>>
    /\ aliased = <<>>
    /\ combined = NoGeometry

ComputeTangentAndBinormal ==
    /\ lastOp = "none"
    /\ LET r == computeTangentAndBinormal(geometry)
       IN  geometry' = r.geometry /\ threw' = r.threw
    /\ before' = geometry
    /\ lastOp' = "computeTangentAndBinormal"
    /\ arg' = undefined
    /\ UNCHANGED polylinesVars
    /\ UNCHANGED <<geometries, aliased, instanceList, combined>>

\* A geometry function is called on the geometry the caller holds.
NextStages ==
    \/ lastOp = "none" /\ geometry # NoGeometry /\ ToWireframe
    \/ lastOp = "none" /\ geometry # NoGeometry /\ ReorderForPreVertexCache
    \/ geometry # NoGeometry /\ ReorderForPostVertexCache
    \/ geometry # NoGeometry /\ FitToUnsignedShortIndices
    \/ geometry = NoGeometry /\ Combine
    \/ geometry # NoGeometry /\ ComputeNormal
    \/ geometry # NoGeometry /\ ComputeTangentAndBinormal
    \/ geometry # NoGeometry /\ EncodeAttribute

SpecStages == InitStages /\ [][NextStages]_vars

(***************************************************************************)
(* Claims about every stage.                                               *)
(***************************************************************************)
\* The primitive type of g is not TRIANGLES or g has no index list.
Inapplicable(g) == g.primitiveType # "TRIANGLES" \/ ~g.indexed

\* The index list of g has fewer than two indices or no whole triangles.
NoWholeTriangles(g) ==
    g.indexed /\ (Len(g.indexList) < 2 \/ Len(g.indexList) % 3 # 0)

\* The last call was one the claim is about, on a geometry it does not
\* apply to.
InapplicableCall ==
    \/ /\ lastOp = "reorderForPostVertexCache"
       /\ Inapplicable(before)
    \/ /\ lastOp \in {"computeNormal", "computeTangentAndBinormal"}
       /\ Inapplicable(before) \/ NoWholeTriangles(before)

\* The attributes the last call requires are there, of the right shape.
RequiredAttributesGiven ==
    CASE lastOp = "computeNormal" ->
            ~requiredAttributeMissing(before.attributes, "position", 3)
      [] lastOp = "computeTangentAndBinormal" ->
            /\ ~requiredAttributeMissing(before.attributes, "position", 3)
            /\ ~requiredAttributeMissing(before.attributes, "normal", 3)
            /\ ~requiredAttributeMissing(before.attributes, "st", 2)
      [] OTHER -> TRUE

\* C23 as stated: reorderForPostVertexCache, computeNormal and
\* computeTangentAndBinormal do not fail and leave the geometry as it was
\* where its primitive type is not TRIANGLES or it has no index list, and
\* the latter two also where the index list has fewer than 2 indices or a
\* length that is no multiple of 3.
C23_InapplicableIsNoOp ==
    InapplicableCall => ~threw /\ geometry = before

\* C23: on a geometry that has the attributes the function requires, of the
\* right shape, reorderForPostVertexCache, computeNormal and
\* computeTangentAndBinormal do not fail and leave the geometry as it was
\* (index list and every attribute; no normal, tangent or binormal added)
\* where its primitive type is not TRIANGLES or it has no index list, and
\* the latter two also where the index list has fewer than 2 indices or a
\* length that is no multiple of 3.
C23_InapplicableIsNoOpGivenAttributes ==
    InapplicableCall /\ RequiredAttributesGiven
    => ~threw /\ geometry = before

\* computeTangentAndBinormal was called on LINES with a position, a normal
\* and texture coordinates and added no tangent and no binormal.
C23_Witness ==
    /\ lastOp = "computeTangentAndBinormal" /\ ~threw
    /\ before.primitiveType = "LINES" /\ before.indexed
    /\ before.indexList = <<0, 1, 0>>
    /\ DOMAIN before.attributes = {"position", "normal", "st"}
    /\ DOMAIN geometry.attributes = {"position", "normal", "st"}
    /\ geometry = before

\* C25: a call of a pipeline function that fails leaves the geometry, or the
\* instances, it was given as they were: index list, primitive type,
\* attributes and their values.
C25_FailureChangesNothing ==
    [][threw' => geometry' = geometry /\ instanceList' = instanceList]_vars

\* computeNormal failed on an index of no vertex, and the geometry has its
\* index list and no normal.
C25_Witness ==
    /\ lastOp = "computeNormal" /\ threw
    /\ before.primitiveType = "TRIANGLES"
    /\ before.indexList = <<0, 1, StageMaxVertices>>
    /\ DOMAIN before.attributes = {"position"}
    /\ geometry = before

(***************************************************************************)
(* Vector3DTileClampedPolylines.  The functions below take and return a    *)
(* world w = [polylines, heap, taskProcessor]: the primitive, the objects  *)
(* made so far and the task processor.  An object is a record with its     *)
(* type and what it refers to; the sizes and the contents of the arrays    *)
(* are not modelled.                                                       *)
(***************************************************************************)
defined(value) == value # undefined

\* new: the object is put on the heap; its reference is the new length.
allocate(h, object) == Append(h, object)

\* arraySlice(array): a new array of the type of the array.
arraySlice(h, array) == allocate(h, [type |-> h[array].type])

\* Lines 225-234 with the copies made whether or not there is a packed
\* buffer.
copyPayloadAlways(w) ==
    LET p == w.polylines
        n == Len(w.heap)
        h1 == arraySlice(w.heap, p._positions)
        h2 == arraySlice(h1, p._widths)
        h3 == arraySlice(h2, p._counts)
        h4 == arraySlice(h3, p._batchIds)
        h5 == allocate(h4, [type |-> "Float64Array"])
    IN  [w EXCEPT !.heap = h5,
                  !.polylines = [p EXCEPT !._positions = n + 1,
                                          !._widths = n + 2,
                                          !._counts = n + 3,
                                          !._transferrableBatchIds = n + 4,
                                          !._packedBuffer = n + 5]]

\* Lines 225-234: without a packed buffer, the arrays are copied and the
\* buffer is packed (packBuffer, lines 176-199).
copyPayload(w) ==
    LET p == w.polylines
        n == Len(w.heap)
        h1 == arraySlice(w.heap, p._positions)
        h2 == arraySlice(h1, p._widths)
        h3 == arraySlice(h2, p._counts)
        h4 == arraySlice(h3, p._batchIds)
        h5 == allocate(h4, [type |-> "Float64Array"])
    IN  IF ~defined(p._packedBuffer)
        THEN [w EXCEPT !.heap = h5,
                       !.polylines = [p EXCEPT !._positions = n + 1,
                                               !._widths = n + 2,
                                               !._counts = n + 3,
                                               !._transferrableBatchIds = n + 4,
                                               !._packedBuffer = n + 5]]
        ELSE w

\* How many postponed calls and how many tasks the task processor's record
\* tells apart.
MaxPostponed == 2

MaxTasks == 2

\* TaskProcessor.scheduleTask(parameters, transferableObjects), line 245:
\* with no worker free nothing is sent and undefined is returned;
\* otherwise the buffers go to the worker and a promise is returned.
scheduleTask(w, parameters, free) ==
    LET t == w.taskProcessor
        called == [t EXCEPT !.first = IF t.first = <<>> THEN parameters ELSE @,
                            !.latest = parameters]
    IN  IF free
        THEN [w EXCEPT
                !.heap = allocate(@, [type |-> "Promise"]),
                !.polylines._verticesPromise = Len(w.heap) + 1,
                !.taskProcessor =
                    [called EXCEPT
                        !.transferred = IF Len(@) < MaxTasks
                                        THEN Append(@, parameters) ELSE @,
                        !.active = TRUE]]
        ELSE [w EXCEPT
                !.polylines._verticesPromise = undefined,
                !.taskProcessor =
                    [called EXCEPT
                        !.postponed = IF @ < MaxPostponed THEN @ + 1 ELSE @]]

\* Lines 267-395: the vertex array is made of the arrays of the result,
\* what is no longer needed is let go and the ready promise is resolved.
createVertexArrayFromResult(w) ==
    LET p == w.polylines
        indices == p._indices
        va == [type |-> "VertexArray",
               attributes |-> <<p._startEllipsoidNormals, p._endEllipsoidNormals,
                                p._startPositionAndHeights,
                                p._endPositionAndHeights,
                                p._startFaceNormalAndVertexCorners,
                                p._endFaceNormalAndHalfWidths,
                                p._vertexBatchIds>>,
               indexBuffer |-> indices,
               indexDatatype |-> IF w.heap[indices].type = "Uint16Array"
                                 THEN "UNSIGNED_SHORT" ELSE "UNSIGNED_INT"]
    IN  IF p._ready /\ ~defined(p._va)
        THEN [w EXCEPT
                !.heap = allocate(@, va),
                !.polylines =
                    [p EXCEPT
                        !._va = Len(w.heap) + 1,
                        !._positions = undefined,
                        !._widths = undefined,
                        !._counts = undefined,
                        !._ellipsoid = "undefined",
                        !._minimumHeight = "undefined",
                        !._maximumHeight = "undefined",
                        !._rectangle = "undefined",
                        !._transferrableBatchIds = undefined,
                        !._packedBuffer = undefined,
                        !._startEllipsoidNormals = undefined,
                        !._endEllipsoidNormals = undefined,
                        !._startPositionAndHeights = undefined,
                        !._startFaceNormalAndVertexCorners = undefined,
                        !._endPositionAndHeights = undefined,
                        !._endFaceNormalAndHalfWidths = undefined,
                        !._vertexBatchIds = undefined,
                        !._indices = undefined,
                        !._readyPromise =
                            [resolved |-> TRUE,
                             resolveCalls |-> IF @.resolveCalls < MaxTasks
                                              THEN @.resolveCalls + 1
                                              ELSE @.resolveCalls]]]
        ELSE w

\* createVertexArray with a task scheduled whether or not there is a
\* vertices promise.
createVertexArrayAlwaysScheduling(w, free) ==
    IF defined(w.polylines._va) THEN w
    ELSE LET c == copyPayload(w)
             p == c.polylines
             s == scheduleTask(c, <<p._positions, p._widths, p._counts,
                                    p._transferrableBatchIds, p._packedBuffer>>,
                               free)
         IN  IF ~defined(s.polylines._verticesPromise)
             THEN s
             ELSE createVertexArrayFromResult(s)

\* createVertexArray (lines 212-396).  The function given to when (line
\* 251) is called when the promise is resolved, after this call.
createVertexArray(w, free) ==
    IF defined(w.polylines._va) THEN w
    ELSE IF ~defined(w.polylines._verticesPromise)
    THEN LET c == copyPayload(w)
             p == c.polylines
             s == scheduleTask(c, <<p._positions, p._widths, p._counts,
                                    p._transferrableBatchIds, p._packedBuffer>>,
                               free)
         IN  IF ~defined(s.polylines._verticesPromise)
             THEN s
             ELSE createVertexArrayFromResult(s)
    ELSE createVertexArrayFromResult(w)

\* The function given to when (lines 251-264): the arrays of the result
\* are wrapped and the primitive is ready.
whenVerticesPromise(w, indexDatatype) ==
    LET n == Len(w.heap)
        float32 == [type |-> "Float32Array"]
        indices == [type |-> IF indexDatatype = "UNSIGNED_SHORT"
                             THEN "Uint16Array" ELSE "Uint32Array"]
    IN  [w EXCEPT
            !.heap = @ \o <<float32, float32, float32, float32, float32,
                            float32, [type |-> "Uint16Array"], indices>>,
            !.polylines =
                [@ EXCEPT !._startEllipsoidNormals = n + 1,
                          !._endEllipsoidNormals = n + 2,
                          !._startPositionAndHeights = n + 3,
                          !._startFaceNormalAndVertexCorners = n + 4,
                          !._endPositionAndHeights = n + 5,
                          !._endFaceNormalAndHalfWidths = n + 6,
                          !._vertexBatchIds = n + 7,
                          !._indices = n + 8,
                          !._ready = TRUE],
            !.taskProcessor.active = FALSE]

\* createUniformMap, createShaders, createRenderStates (lines 401-467) for
\* field _uniformMap, _sp or _rs: made once.
createOnce(w, field, type) ==
    IF defined(w.polylines[field]) THEN w
    ELSE [w EXCEPT !.heap = allocate(@, [type |-> type]),
                   !.polylines[field] = Len(w.heap) + 1]

\* queueCommands (lines 469-485): [world, frameState].
queueCommands(w, frameState) ==
    LET p == w.polylines
        made == IF ~defined(p._command)
                THEN [w EXCEPT
                        !.heap = allocate(@, [type |-> "DrawCommand",
                                              vertexArray |-> p._va,
                                              renderState |-> p._rs,
                                              shaderProgram |-> p._sp]),
                        !.polylines._command = Len(w.heap) + 1]
                ELSE w
    IN  [world |-> made,
         frameState |-> [frameState EXCEPT
                            !.commandList = Append(@, made.polylines._command)]]

\* update with no look at _ready.
updateWithoutReady(w, frameState, free) ==
    LET w1 == createVertexArray(w, free)
        w2 == createOnce(w1, "_uniformMap", "Object")
        w3 == createOnce(w2, "_sp", "ShaderProgram")
        w4 == createOnce(w3, "_rs", "RenderState")
    IN  IF frameState.passes.render \/ frameState.passes.pick
        THEN queueCommands(w4, frameState)
        ELSE [world |-> w4, frameState |-> frameState]

\* update (lines 557-573): [world, frameState].
update(w, frameState, free) ==
    LET w1 == createVertexArray(w, free)
        w2 == createOnce(w1, "_uniformMap", "Object")
        w3 == createOnce(w2, "_sp", "ShaderProgram")
        w4 == createOnce(w3, "_rs", "RenderState")
    IN  IF ~w4.polylines._ready
        THEN [world |-> w4, frameState |-> frameState]
        ELSE IF frameState.passes.render \/ frameState.passes.pick
        THEN queueCommands(w4, frameState)
        ELSE [world |-> w4, frameState |-> frameState]

(***************************************************************************)
(* The polylines specification: a primitive is constructed; update is      *)
(* called frame after frame, with any passes, with a command list that     *)
(* holds up to MaxCommands commands of other primitives (0) and with the   *)
(* task processor free or not; the worker gives its result between two     *)
(* calls of update.                                                        *)
(***************************************************************************)
MaxCommands == 1

\* The commands of the primitive in the command list of a frame.
OwnCommands(frame) ==
    {frame.commandList[k] : k \in 1..Len(frame.commandList)} \ {0}

World == [polylines |-> polylines, heap |-> heap,
          taskProcessor |-> taskProcessor]

InitPolylines ==
    /\ Constructed
    /\ geometry = NoGeometry
    /\ before = NoGeometry
    /\ lastOp = "none"
    /\ arg = undefined
    /\ threw = FALSE
    /\ geometries = <<>>
    /\ aliased = <<>>
    /\ instanceList = <<>>
    /\ combined = NoGeometry

\* One call of update, the task processor being free or not.
UpdateWith(free) ==
    \E render \in BOOLEAN, pick \in BOOLEAN, others \in 0..MaxCommands :
        LET r == update(World,
                        [passes |-> [render |-> render, pick |-> pick],
                         commandList |-> [i \in 1..others |-> 0]],
                        free)
        IN  /\ polylines' = r.world.polylines
            /\ heap' = r.world.heap
            /\ taskProcessor' = r.world.taskProcessor
            /\ latestFrame' = r.frameState
            /\ queued' = queued \cup OwnCommands(latestFrame)
            /\ UNCHANGED pipelineVars

Update == \E free \in BOOLEAN : UpdateWith(free)

\* The worker is done: the vertices promise is resolved and the function
\* given to when is called.
WhenVerticesPromise ==
    \E indexDatatype \in {"UNSIGNED_SHORT", "UNSIGNED_INT"} :
        /\ taskProcessor.active
        /\ LET w == whenVerticesPromise(World, indexDatatype)
           IN  /\ polylines' = w.polylines
               /\ heap' = w.heap
               /\ taskProcessor' = w.taskProcessor
        /\ UNCHANGED <<latestFrame, queued>>
        /\ UNCHANGED pipelineVars

NextPolylines == Update \/ WhenVerticesPromise

SpecPolylines == InitPolylines /\ [][NextPolylines]_vars

\* update is called again and again, again and again with the task
\* processor free, and a worker at work on a task comes to its end.
SpecPolylinesFair ==
    /\ SpecPolylines
    /\ WF_vars(Update)
    /\ SF_vars(UpdateWith(TRUE))
    /\ WF_vars(WhenVerticesPromise)

(***************************************************************************)
(* Claims about Vector3DTileClampedPolylines.                              *)
(***************************************************************************)
\* The result of the worker has come: a task was taken on and is done.
ResultArrived ==
    /\ Len(taskProcessor.transferred) >= 1
    /\ ~taskProcessor.active
    /\ polylines._ready

\* The objects of the heap of a type.
ObjectsOfType(type) == {a \in 1..Len(heap) : heap[a].type = type}

\* C28: whatever the order of the calls of update and of the coming of the
\* worker's result, a command of the primitive is in the command list of a
\* frame only if the frame's passes have render or pick, the vertex array
\* is made, the command's vertex array is that vertex array and not
\* undefined, and the worker's result has come.
C28_QueuedOnlyWithVertexArray ==
    /\ OwnCommands(latestFrame) # {}
       => latestFrame.passes.render \/ latestFrame.passes.pick
    /\ \A c \in OwnCommands(latestFrame) \cup queued :
            /\ defined(polylines._va)
            /\ heap[polylines._va].type = "VertexArray"
            /\ heap[c].type = "DrawCommand"
            /\ defined(heap[c].vertexArray)
            /\ heap[c].vertexArray = polylines._va
            /\ ResultArrived

\* The command was queued in a frame that has the pick pass only, after
\* one of the other primitives' commands.
C28_Witness ==
    /\ ~latestFrame.passes.render /\ latestFrame.passes.pick
    /\ latestFrame.commandList = <<0, polylines._command>>
    /\ defined(polylines._va)
    /\ heap[polylines._command].vertexArray = polylines._va

\* C29: over any number of calls of update, one task at most is taken on by
\* the task processor and scheduleTask is not called after that (no buffer
\* is sent twice), one vertex array at most is made, the ready promise is
\* resolved once at most, and is resolved exactly if the vertex array is
\* made, and one command at most is made: the commands of the primitive in
\* the command lists of the latest frame and of those before are that one
\* command.
C29_OneTimeStepsOnce ==
    /\ Len(taskProcessor.transferred) <= 1
    /\ Cardinality(ObjectsOfType("Promise")) <= 1
    /\ Len(taskProcessor.transferred) = 1
       => taskProcessor.latest = taskProcessor.transferred[1]
    /\ Cardinality(ObjectsOfType("VertexArray")) <= 1
    /\ polylines._readyPromise.resolveCalls <= 1
    /\ polylines._readyPromise.resolveCalls = 1 <=> defined(polylines._va)
    /\ polylines._readyPromise.resolved <=> defined(polylines._va)
    /\ Cardinality(ObjectsOfType("DrawCommand")) <= 1
    /\ OwnCommands(latestFrame) \cup queued \subseteq {polylines._command}

\* The command is in the command list of the latest frame and in that of
\* a frame before, after a postponed call and a task taken on.
C29_Witness ==
    /\ queued = {polylines._command}
    /\ OwnCommands(latestFrame) = {polylines._command}
    /\ taskProcessor.postponed >= 1
    /\ Len(taskProcessor.transferred) = 1
    /\ polylines._readyPromise.resolveCalls = 1

\* The arrays of the payload and of the worker's result are let go.
Released ==
    \A field \in {"_positions", "_widths", "_counts", "_transferrableBatchIds",
                  "_packedBuffer", "_startEllipsoidNormals",
                  "_endEllipsoidNormals", "_startPositionAndHeights",
                  "_startFaceNormalAndVertexCorners", "_endPositionAndHeights",
                  "_endFaceNormalAndHalfWidths", "_vertexBatchIds", "_indices"} :
        ~defined(polylines[field])

\* Every call of scheduleTask so far was given the arrays and the packed
\* buffer of the first call, which the primitive holds until it lets them
\* go.
RetriedWithTheSame ==
    taskProcessor.first # <<>>
    => /\ taskProcessor.latest = taskProcessor.first
       /\ ~defined(polylines._va)
          => taskProcessor.first
               = <<polylines._positions, polylines._widths, polylines._counts,
                   polylines._transferrableBatchIds, polylines._packedBuffer>>

\* C30: a call of scheduleTask that was postponed is made again with the
\* same copies and the same packed buffer; and where update is called again
\* and again, the task processor is free again and again and the worker
\* comes to its end, the vertex array is made in the end, the ready promise
\* is resolved and the arrays of the payload and of the result are let go.
C30_RetriedThenReleased ==
    /\ []RetriedWithTheSame
    /\ <>(defined(polylines._va) /\ polylines._readyPromise.resolved /\ Released)

\* The vertex array was made after a postponed call, the task having been
\* given what the postponed call was given.
C30_Witness ==
    /\ taskProcessor.postponed >= 1
    /\ Len(taskProcessor.transferred) = 1
    /\ taskProcessor.transferred[1] = taskProcessor.first
    /\ defined(polylines._va)
    /\ polylines._readyPromise.resolved
    /\ Released

====
